---- MODULE Spec2Model ----
(***************************************************************************)
(* Character controller, locomotion state machine, velocity resolver and   *)
(* follow-camera gesture handling and effects manager of                   *)
(* src/playground.ts, and the HUD manager and collectibles manager of      *)
(* src/unnamed/part_000.                                                   *)
(*                                                                         *)
(* Numbers are fixed point.  Lengths, speeds and seconds are carried in    *)
(* thousandths (1.0 is 1000), so the resolver's epsilon 1e-3 is 1.         *)
(* Pixel coordinates are whole pixels, pixel midpoints thousandths of a    *)
(* pixel.  Angles are carried in tenths of a degree (PI is 1800).          *)
(***************************************************************************)
EXTENDS Integers, Sequences, FiniteSets, TLC

VARIABLES
    keysDown,            \* CharacterController.keysDown
    inputDirection,      \* CharacterController.inputDirection (plain units)
    wantJump,            \* CharacterController.wantJump
    isBoosting,          \* CharacterController.isBoosting
    capsuleVisible,      \* displayCapsule.isVisible
    lastKeyEvent,        \* type and key of the last keyboard event handled
    state,               \* CharacterController.state
    velocity,            \* velocity held by the physics character controller
    velocityFinite,      \* FALSE once a non-finite velocity was handed over
    rotationY,           \* displayCapsule.rotation.y
    targetRotationY,     \* CharacterController.targetRotationY
    capsulePosition,     \* displayCapsule.position, the camera's target.position
    animationsLoaded,    \* playerAnimations.walk and .idle are defined
    walkPlaying,         \* playerAnimations.walk.isPlaying
    idlePlaying,         \* playerAnimations.idle.isPlaying
    deltaTime,           \* scene.deltaTime read by the last physics callback
    tickId,              \* flips at every invocation of updatePhysics
    calls,               \* engine/resolver calls made by the last updatePhysics
    support,             \* answer of the last checkSupport
    setVelocityArg,      \* vector last handed to setVelocity
    sweptVelocity,       \* vector last returned by calculateMovement
    offset,              \* SmoothFollowCameraController.offset
    isTwoFingerPanning,  \* SmoothFollowCameraController.isTwoFingerPanning
    lastPanPositions,    \* SmoothFollowCameraController.lastPanPositions
    lastGesture,         \* kind of the last camera gesture event handled
    cameraPosition,      \* camera.position
    cameraLocked,        \* camera.lockedTarget is the target
    isDragging,          \* SmoothFollowCameraController.isDragging
    dragDeltaX,          \* SmoothFollowCameraController.dragDeltaX
    dragDeltaZ,          \* SmoothFollowCameraController.dragDeltaZ
    lastPointerX,        \* SmoothFollowCameraController.lastPointerX
    lastPointerY,        \* SmoothFollowCameraController.lastPointerY
    shouldStartRotationOnWalk,
    isRotatingCharacter,
    characterRotationStartY,
    characterRotationTargetY,
    characterRotationStartTime,
    now,                 \* Date.now(), in milliseconds since the page started
    followRan,           \* the last render frame ran the follow blend
    walkRequested,       \* since the last render frame a key press made the movement
                         \* input active with the flag armed, and it still is
    hudContainer,        \* HUDManager.hudContainer: the layout of its style, or NULL
    hudDisplay,          \* style.display of the HUD container
    hudElements,         \* HUDManager.hudElements: element id to its style.display
    hudRequested,        \* POSITION of the last configuration passed to updateConfig
    collectiblesScene,   \* CollectiblesManager.scene and .characterController are set
    instanceBasis,       \* CollectiblesManager.instanceBasis is set
    collectionObserver,  \* CollectiblesManager.collectionObserver is registered
    collectibles,        \* keys of CollectiblesManager.collectibles
    collectedItems,      \* CollectiblesManager.collectedItems
    totalCredits,        \* CollectiblesManager.totalCredits
    setupStep,           \* position of the pending setupCollectibles call
    effectsScene,        \* EffectsManager.scene is set
    activeParticleSystems, \* EffectsManager.activeParticleSystems: name to system
    particleCalls,       \* createParticleSystem calls waiting for their snippet
    particleSystems,     \* particle systems the snippet parser has handed out
    disposedSystems      \* particle systems stopped and disposed

inputVars  == <<keysDown, inputDirection, wantJump, isBoosting, capsuleVisible, lastKeyEvent>>
physVars   == <<state, velocity, velocityFinite, deltaTime, tickId, calls, support,
               setVelocityArg, sweptVelocity>>
cameraVars == <<offset, isTwoFingerPanning, lastPanPositions, lastGesture>>
charVars   == <<targetRotationY, capsulePosition, animationsLoaded, walkPlaying, idlePlaying>>
pointerVars == <<isDragging, dragDeltaX, dragDeltaZ, lastPointerX, lastPointerY>>
lerpVars   == <<shouldStartRotationOnWalk, isRotatingCharacter, characterRotationStartY,
               characterRotationTargetY, characterRotationStartTime>>
rigVars    == <<cameraPosition, cameraLocked, pointerVars, lerpVars, now, followRan>>
hudVars    == <<hudContainer, hudDisplay, hudElements, hudRequested>>
itemVars   == <<collectiblesScene, instanceBasis, collectionObserver, collectibles,
               collectedItems, totalCredits, setupStep>>
effectVars == <<effectsScene, activeParticleSystems, particleCalls, particleSystems,
               disposedSystems>>
managerVars == <<itemVars, effectVars>>
vars == <<keysDown, inputDirection, wantJump, isBoosting, capsuleVisible, lastKeyEvent,
          state, velocity, velocityFinite, rotationY, deltaTime, tickId, calls,
          support, setVelocityArg, sweptVelocity,
          offset, isTwoFingerPanning, lastPanPositions, lastGesture,
          targetRotationY, capsulePosition, animationsLoaded, walkPlaying, idlePlaying,
          cameraPosition, cameraLocked, isDragging, dragDeltaX, dragDeltaZ,
          lastPointerX, lastPointerY, shouldStartRotationOnWalk, isRotatingCharacter,
          characterRotationStartY, characterRotationTargetY, characterRotationStartTime,
          now, followRan, walkRequested, hudContainer, hudDisplay, hudElements,
          hudRequested, collectiblesScene, instanceBasis, collectionObserver,
          collectibles, collectedItems, totalCredits, setupStep, effectsScene,
          activeParticleSystems, particleCalls, particleSystems, disposedSystems>>

----------------------------------------------------------------------------
(* Bounds of the model *)

MaxHeld   == 2      \* keys held at the same time
MaxOffset == 17000  \* largest |component| of the camera offset explored
MaxFall   == 4000   \* largest downward speed before the engine stops the fall

----------------------------------------------------------------------------
(* Fixed-point arithmetic *)

ONE == 1000

Abs(a) == IF a < 0 THEN -a ELSE a

\* division of the fixed-point representation, rounding toward zero
TDiv(a, b) == IF (a < 0) = (b < 0) THEN Abs(a) \div Abs(b) ELSE -(Abs(a) \div Abs(b))

RECURSIVE SqrtSearch(_, _, _)
SqrtSearch(n, lo, hi) ==
    IF lo >= hi THEN lo
    ELSE LET mid == (lo + hi + 1) \div 2
         IN  IF mid * mid <= n THEN SqrtSearch(n, mid, hi)
                               ELSE SqrtSearch(n, lo, mid - 1)

\* integer square root, the largest r with r*r <= n
ISqrt(n) == SqrtSearch(n, 0, 46340)

\* Math.sqrt on a fixed-point number
Sqrt(a) == ISqrt(a * ONE)

Zero == <<0, 0, 0>>

VAdd(a, b) == <<a[1] + b[1], a[2] + b[2], a[3] + b[3]>>
VSub(a, b) == <<a[1] - b[1], a[2] - b[2], a[3] - b[3]>>
\* Vector3.scale by a fixed-point scalar
VScale(v, s) == <<TDiv(v[1] * s, ONE), TDiv(v[2] * s, ONE), TDiv(v[3] * s, ONE)>>
Dot(a, b) == TDiv(a[1] * b[1] + a[2] * b[2] + a[3] * b[3], ONE)
Cross(a, b) == <<TDiv(a[2] * b[3] - a[3] * b[2], ONE),
                 TDiv(a[3] * b[1] - a[1] * b[3], ONE),
                 TDiv(a[1] * b[2] - a[2] * b[1], ONE)>>
Length(v) == ISqrt(v[1] * v[1] + v[2] * v[2] + v[3] * v[3])
\* Vector3.normalizeFromLength: a zero length leaves the vector as it is
NormalizeFromLength(v, len) ==
    IF len = 0 \/ len = ONE THEN v
    ELSE <<TDiv(v[1] * ONE, len), TDiv(v[2] * ONE, len), TDiv(v[3] * ONE, len)>>
Normalize(v) == NormalizeFromLength(v, Length(v))

----------------------------------------------------------------------------
(* Configuration *)

SPEED_IN_AIR      == 8000
SPEED_ON_GROUND   == 10000
BOOST_MULTIPLIER  == 2000
JUMP_HEIGHT       == 2000
CAMERA_START_POSITION == <<0, 5000, -10000>>
CAMERA_OFFSET     == <<0, 1200, -3000>>
ROTATION_SPEED    == 30
ROTATION_SMOOTHING == 200
DRAG_SENSITIVITY  == 20
ZOOM_MIN          == -15000
ZOOM_MAX          == -2000
CHARACTER_GRAVITY == <<0, -18000, 0>>

FORWARD      == {"w", "arrowup"}
BACKWARD     == {"s", "arrowdown"}
LEFT         == {"a", "arrowleft"}
RIGHT        == {"d", "arrowright"}
STRAFE_LEFT  == {"q"}
STRAFE_RIGHT == {"e"}
JUMP         == {" "}
BOOST        == {"shift"}
DEBUG        == {"0"}

IN_AIR     == "IN_AIR"
ON_GROUND  == "ON_GROUND"
START_JUMP == "START_JUMP"

----------------------------------------------------------------------------
(* Input aggregator: CharacterController key handling *)

\* key identifiers as the browser delivers them in KeyboardEvent.key
EventKeys == {"w", "W", "ArrowUp", "s", "ArrowDown", "a", "ArrowLeft",
              "d", "ArrowRight", "q", "e", " ", "Shift", "0", "x"}

\* String.prototype.toLowerCase on the identifiers above
toLowerCase(k) ==
    CASE k = "W"          -> "w"
      [] k = "ArrowUp"    -> "arrowup"
      [] k = "ArrowDown"  -> "arrowdown"
      [] k = "ArrowLeft"  -> "arrowleft"
      [] k = "ArrowRight" -> "arrowright"
      [] k = "Shift"      -> "shift"
      [] OTHER            -> k

\* variant whose chain ends in an else that requests a jump
handleKeyDown_ElseJump(key) ==
    /\ inputDirection' =
          IF key \in FORWARD THEN [inputDirection EXCEPT ![3] = 1]
          ELSE IF key \in BACKWARD THEN [inputDirection EXCEPT ![3] = -1]
          ELSE IF key \in STRAFE_LEFT THEN [inputDirection EXCEPT ![1] = -1]
          ELSE IF key \in STRAFE_RIGHT THEN [inputDirection EXCEPT ![1] = 1]
          ELSE inputDirection
    /\ wantJump' =
          IF key \notin (FORWARD \cup BACKWARD \cup STRAFE_LEFT \cup STRAFE_RIGHT
                         \cup BOOST \cup DEBUG)
          THEN TRUE ELSE wantJump
    /\ isBoosting' =
          IF key \notin (FORWARD \cup BACKWARD \cup STRAFE_LEFT \cup STRAFE_RIGHT \cup JUMP)
             /\ key \in BOOST
          THEN TRUE ELSE isBoosting
    /\ capsuleVisible' =
          IF key \notin (FORWARD \cup BACKWARD \cup STRAFE_LEFT \cup STRAFE_RIGHT
                         \cup JUMP \cup BOOST)
             /\ key \in DEBUG
          THEN ~capsuleVisible ELSE capsuleVisible

\* the if / else-if chain of handleKeyDown
handleKeyDown(key) ==
    /\ inputDirection' =
          IF key \in FORWARD THEN [inputDirection EXCEPT ![3] = 1]
          ELSE IF key \in BACKWARD THEN [inputDirection EXCEPT ![3] = -1]
          ELSE IF key \in STRAFE_LEFT THEN [inputDirection EXCEPT ![1] = -1]
          ELSE IF key \in STRAFE_RIGHT THEN [inputDirection EXCEPT ![1] = 1]
          ELSE inputDirection
    /\ wantJump' =
          IF key \notin (FORWARD \cup BACKWARD \cup STRAFE_LEFT \cup STRAFE_RIGHT)
             /\ key \in JUMP
          THEN TRUE ELSE wantJump
    /\ isBoosting' =
          IF key \notin (FORWARD \cup BACKWARD \cup STRAFE_LEFT \cup STRAFE_RIGHT \cup JUMP)
             /\ key \in BOOST
          THEN TRUE ELSE isBoosting
    /\ capsuleVisible' =
          IF key \notin (FORWARD \cup BACKWARD \cup STRAFE_LEFT \cup STRAFE_RIGHT
                         \cup JUMP \cup BOOST)
             /\ key \in DEBUG
          THEN ~capsuleVisible ELSE capsuleVisible

\* variant that keeps the axis while another of its keys is held
keyUpZ_WhileHeld(key, dir) ==
    IF (key \in FORWARD \/ key \in BACKWARD)
       /\ ~\E other \in (FORWARD \cup BACKWARD) \ {key} : other \in keysDown
    THEN [dir EXCEPT ![3] = 0] ELSE dir

\* inputDirection.z after the first statement of handleKeyUp
keyUpZ(key, dir) ==
    IF key \in FORWARD \/ key \in BACKWARD THEN [dir EXCEPT ![3] = 0] ELSE dir

\* variant in which only the turn keys clear the strafe axis
keyUpX_TurnOnly(key, dir) ==
    IF key \in LEFT \/ key \in RIGHT THEN [dir EXCEPT ![1] = 0] ELSE dir

\* inputDirection.x after the second and third statements of handleKeyUp
keyUpX(key, dir) ==
    LET afterTurn == IF key \in LEFT \/ key \in RIGHT
                     THEN [dir EXCEPT ![1] = 0] ELSE dir
    IN  IF key \in STRAFE_LEFT \/ key \in STRAFE_RIGHT
        THEN [afterTurn EXCEPT ![1] = 0] ELSE afterTurn

\* variant in which releasing the jump key leaves the jump request standing
handleKeyUp_KeepsJump(key) ==
    /\ inputDirection' = keyUpX(key, keyUpZ(key, inputDirection))
    /\ wantJump' = wantJump
    /\ isBoosting' = IF key \in BOOST THEN FALSE ELSE isBoosting
    /\ capsuleVisible' = capsuleVisible

\* the independent if statements of handleKeyUp
handleKeyUp(key) ==
    /\ inputDirection' = keyUpX(key, keyUpZ(key, inputDirection))
    /\ wantJump' = IF key \in JUMP THEN FALSE ELSE wantJump
    /\ isBoosting' = IF key \in BOOST THEN FALSE ELSE isBoosting
    /\ capsuleVisible' = capsuleVisible

\* variant that reads the intent axes in the place of the held keys
isAnyMovementKeyPressed_ByAxes(held) == inputDirection # Zero

isAnyMovementKeyPressed(held) ==
    \/ \E key \in FORWARD : key \in held
    \/ \E key \in BACKWARD : key \in held
    \/ \E key \in LEFT : key \in held
    \/ \E key \in RIGHT : key \in held
    \/ \E key \in STRAFE_LEFT : key \in held
    \/ \E key \in STRAFE_RIGHT : key \in held

\* handleKeyboard, case KEYDOWN (the browser repeats it while the key is held)
KeyDown(eventKey) ==
    LET key == toLowerCase(eventKey) IN
    /\ Cardinality(keysDown \cup {key}) <= MaxHeld
    /\ keysDown' = keysDown \cup {key}
    /\ handleKeyDown(key)
    /\ lastKeyEvent' = <<"KEYDOWN", key>>
    /\ walkRequested' = (\/ walkRequested
                         \/ /\ shouldStartRotationOnWalk
                            /\ ~isAnyMovementKeyPressed(keysDown)
                            /\ isAnyMovementKeyPressed({key}))
    /\ UNCHANGED hudVars
    /\ UNCHANGED managerVars
    /\ UNCHANGED <<physVars, rotationY, cameraVars, charVars, rigVars>>

\* handleKeyboard, case KEYUP
KeyUp(eventKey) ==
    LET key == toLowerCase(eventKey) IN
    /\ keysDown' = keysDown \ {key}
    /\ handleKeyUp(key)
    /\ lastKeyEvent' = <<"KEYUP", key>>
    /\ walkRequested' = (walkRequested /\ isAnyMovementKeyPressed(keysDown \ {key}))
    /\ UNCHANGED hudVars
    /\ UNCHANGED managerVars
    /\ UNCHANGED <<physVars, rotationY, cameraVars, charVars, rigVars>>

----------------------------------------------------------------------------
(* Camera gestures: SmoothFollowCameraController wheel and touch handlers *)

NULL == <<>>

\* horizontal wheel deltas delivered by the browser, in pixels
WheelDeltas == {-100, -25, 25, 100}

\* clientX / clientY of a touch point, in pixels
TouchCoords == {0, 25}

\* the touches of a touch event: one, two or three touch points
TouchLists ==
    [1..1 -> TouchCoords \X TouchCoords] \cup [1..2 -> TouchCoords \X TouchCoords]
        \cup {<<<<0, 0>>, <<25, 0>>, <<25, 25>>>>}

\* camera.getDirection(Right) and camera.getDirection(Forward): the camera's
\* orientation is owned by the engine; identity and a quarter turn about up
CameraFrames ==
    {[right |-> <<1000, 0, 0>>, up |-> <<0, 1000, 0>>, forward |-> <<0, 0, 1000>>],
     [right |-> <<0, 0, -1000>>, up |-> <<0, 1000, 0>>, forward |-> <<1000, 0, 0>>]}

\* BABYLON.Scalar.Clamp
Clamp(value, min, max) == IF value < min THEN min ELSE IF value > max THEN max ELSE value

InBox(v) == \A i \in 1..3 : Abs(v[i]) <= MaxOffset

\* offset after handleWheel
wheelOffset(off, deltaX) ==
    LET moved == [off EXCEPT ![3] = off[3] + deltaX * DRAG_SENSITIVITY * 6]
    IN  [moved EXCEPT ![3] = Clamp(moved[3], ZOOM_MIN, ZOOM_MAX)]

handleWheel(deltaX) ==
    /\ offset' = wheelOffset(offset, deltaX)
    /\ lastGesture' = "wheel"
    /\ UNCHANGED <<isTwoFingerPanning, lastPanPositions>>
    /\ UNCHANGED <<inputVars, physVars, rotationY, charVars, rigVars>>
    /\ UNCHANGED walkRequested
    /\ UNCHANGED hudVars
    /\ UNCHANGED managerVars

\* [x0, y0, x1, y1] of the first two touches
positionsOf(touches) == <<touches[1][1], touches[1][2], touches[2][1], touches[2][2]>>

handleTouchStart(touches) ==
    /\ IF Len(touches) = 2
       THEN /\ isTwoFingerPanning' = TRUE
            /\ lastPanPositions' = positionsOf(touches)
       ELSE UNCHANGED <<isTwoFingerPanning, lastPanPositions>>
    /\ lastGesture' = "touchstart"
    /\ UNCHANGED <<offset, inputVars, physVars, rotationY, charVars, rigVars>>
    /\ UNCHANGED walkRequested
    /\ UNCHANGED hudVars
    /\ UNCHANGED managerVars

\* midpoint of two pixel coordinates, in thousandths of a pixel
Mid(a, b) == TDiv((a + b) * ONE, 2)

\* variant that moves the offset with the fingers along camera-right
panOffset_WithFingers(off, last, curr, frame) ==
    LET lastMidX == Mid(last[1], last[3])
        lastMidY == Mid(last[2], last[4])
        currMidX == Mid(curr[1], curr[3])
        currMidY == Mid(curr[2], curr[4])
        deltaX == currMidX - lastMidX
        deltaY == currMidY - lastMidY
        alongRight == VScale(frame.right, TDiv(deltaX * DRAG_SENSITIVITY, ONE) * 4)
        alongForward == VScale(frame.forward, TDiv(deltaY * DRAG_SENSITIVITY, ONE) * 4)
    IN  VAdd(VAdd(off, alongRight), alongForward)

\* offset after handleTwoFingerPan
panOffset(off, last, curr, frame) ==
    LET lastMidX == Mid(last[1], last[3])
        lastMidY == Mid(last[2], last[4])
        currMidX == Mid(curr[1], curr[3])
        currMidY == Mid(curr[2], curr[4])
        deltaX == currMidX - lastMidX
        deltaY == currMidY - lastMidY
        alongRight == VScale(frame.right, TDiv(-deltaX * DRAG_SENSITIVITY, ONE) * 4)
        alongForward == VScale(frame.forward, TDiv(deltaY * DRAG_SENSITIVITY, ONE) * 4)
    IN  VAdd(VAdd(off, alongRight), alongForward)

\* handleTouchMove and, past its early return, handleTwoFingerPan
handleTouchMove(touches, frame) ==
    /\ IF ~isTwoFingerPanning \/ Len(touches) # 2 \/ lastPanPositions = NULL
       THEN UNCHANGED <<offset, lastPanPositions>>
       ELSE /\ offset' = panOffset(offset, lastPanPositions, positionsOf(touches), frame)
            /\ InBox(offset')
            /\ lastPanPositions' = positionsOf(touches)
    /\ lastGesture' = "touchmove"
    /\ UNCHANGED <<isTwoFingerPanning, inputVars, physVars, rotationY, charVars, rigVars>>
    /\ UNCHANGED walkRequested
    /\ UNCHANGED hudVars
    /\ UNCHANGED managerVars

\* handleTouchEnd; remaining is e.touches.length, the touches still down
handleTouchEnd(remaining) ==
    /\ IF remaining < 2
       THEN /\ isTwoFingerPanning' = FALSE
            /\ lastPanPositions' = NULL
       ELSE UNCHANGED <<isTwoFingerPanning, lastPanPositions>>
    /\ lastGesture' = "touchend"
    /\ UNCHANGED <<offset, inputVars, physVars, rotationY, charVars, rigVars>>
    /\ UNCHANGED walkRequested
    /\ UNCHANGED hudVars
    /\ UNCHANGED managerVars

----------------------------------------------------------------------------
(* Locomotion state machine and velocity resolver *)

\* scene.deltaTime in milliseconds; UNDEFINED stands for the first frames,
\* when the engine has not measured a frame time yet
UNDEFINED == -1
DeltaTimes == {UNDEFINED, 0, 100}

\* BABYLON.CharacterSupportedState
SupportedStates == {"UNSUPPORTED", "SLIDING", "SUPPORTED"}

\* surfaces the support query reports (average normal, average velocity):
\* level ground, a moving platform, a slope and a vertical wall
Surfaces == {<<<<0, 1000, 0>>, Zero>>, <<<<0, 1000, 0>>, <<1000, 0, 0>>>>,
             <<<<600, 800, 0>>, Zero>>, <<<<1000, 0, 0>>, Zero>>}

SupportInfo(supportedState, surface, tick) ==
    [supportedState |-> supportedState, averageSurfaceNormal |-> surface[1],
     averageSurfaceVelocity |-> surface[2], tick |-> tick]

\* what checkSupport can answer; tick stamps the invocation that asked
SupportInfos(tick) ==
    {SupportInfo("SUPPORTED", surface, tick) : surface \in Surfaces}
    \cup {SupportInfo(s, <<<<0, 1000, 0>>, Zero>>, tick) : s \in SupportedStates \ {"SUPPORTED"}}

\* the engine's swept-movement solver is opaque: it reaches the desired
\* velocity on the surface, keeps the current one, or deflects the motion
\* upward along an obstacle
SolverModes == {"reach", "keep", "climb"}

calculateMovement(mode, currentVelocity, surfaceVelocity, desiredVelocity) ==
    CASE mode = "reach" -> VAdd(desiredVelocity, surfaceVelocity)
      [] mode = "keep"  -> currentVelocity
      [] OTHER          -> VAdd(VAdd(desiredVelocity, surfaceVelocity), <<0, 2000, 0>>)

\* integrate moves the character; a collision may stop it
IntegrateModes == {"free", "blocked"}

\* sine and cosine of an angle in tenths of a degree (Bhaskara's quotient)
NormAngle(a) == ((a % 3600) + 3600) % 3600
SinHalf(a) == LET p == TDiv(a * (1800 - a), 100) IN TDiv(4 * p * ONE, 40500 - p)
Sin(a) == LET n == NormAngle(a) IN IF n <= 1800 THEN SinHalf(n) ELSE -SinHalf(n - 1800)
Cos(a) == Sin(a + 900)

\* Vector3.applyRotationQuaternion for Quaternion.FromEulerAngles(0, yaw, 0)
applyYaw(v, yaw) ==
    <<TDiv(v[1] * Cos(yaw) + v[3] * Sin(yaw), ONE),
      v[2],
      TDiv(v[3] * Cos(yaw) - v[1] * Sin(yaw), ONE)>>

\* variants of getNextState with one case altered
getNextState_JumpFirst(st, supportInfo, jump) ==
    CASE st = IN_AIR ->
            IF supportInfo.supportedState = "SUPPORTED" THEN ON_GROUND ELSE IN_AIR
      [] st = ON_GROUND ->
            IF jump THEN START_JUMP
            ELSE IF supportInfo.supportedState # "SUPPORTED" THEN IN_AIR ELSE ON_GROUND
      [] st = START_JUMP -> IN_AIR
      [] OTHER -> IN_AIR

getNextState_SlidingLands(st, supportInfo, jump) ==
    CASE st = IN_AIR ->
            IF supportInfo.supportedState # "UNSUPPORTED" THEN ON_GROUND ELSE IN_AIR
      [] st = ON_GROUND ->
            IF supportInfo.supportedState # "SUPPORTED" THEN IN_AIR
            ELSE IF jump THEN START_JUMP ELSE ON_GROUND
      [] st = START_JUMP -> IN_AIR
      [] OTHER -> IN_AIR

getNextState_JumpHeld(st, supportInfo, jump) ==
    CASE st = IN_AIR ->
            IF supportInfo.supportedState = "SUPPORTED" THEN ON_GROUND ELSE IN_AIR
      [] st = ON_GROUND ->
            IF supportInfo.supportedState # "SUPPORTED" THEN IN_AIR
            ELSE IF jump THEN START_JUMP ELSE ON_GROUND
      [] st = START_JUMP -> IF jump THEN START_JUMP ELSE IN_AIR
      [] OTHER -> IN_AIR

getNextState_Landing(st, supportInfo, jump) ==
    CASE st = IN_AIR ->
            IF supportInfo.supportedState = "SUPPORTED" THEN "LANDING" ELSE IN_AIR
      [] st = ON_GROUND ->
            IF supportInfo.supportedState # "SUPPORTED" THEN IN_AIR
            ELSE IF jump THEN START_JUMP ELSE ON_GROUND
      [] st = START_JUMP -> IN_AIR
      [] OTHER -> IN_AIR

\* variant that lets the jump key start a jump in the air
getNextState_AirJump(st, supportInfo, jump) ==
    CASE st = IN_AIR ->
            IF supportInfo.supportedState = "SUPPORTED" THEN ON_GROUND
            ELSE IF jump THEN START_JUMP ELSE IN_AIR
      [] st = ON_GROUND ->
            IF supportInfo.supportedState # "SUPPORTED" THEN IN_AIR
            ELSE IF jump THEN START_JUMP ELSE ON_GROUND
      [] st = START_JUMP -> IN_AIR
      [] OTHER -> IN_AIR

getNextState(st, supportInfo, jump) ==
    CASE st = IN_AIR ->
            IF supportInfo.supportedState = "SUPPORTED" THEN ON_GROUND ELSE IN_AIR
      [] st = ON_GROUND ->
            IF supportInfo.supportedState # "SUPPORTED" THEN IN_AIR
            ELSE IF jump THEN START_JUMP ELSE ON_GROUND
      [] st = START_JUMP -> IN_AIR
      [] OTHER -> IN_AIR

\* a resolved velocity: the vector, and whether its components are finite
Finite(v) == [v |-> v, finite |-> TRUE]
NonFinite == [v |-> Zero, finite |-> FALSE]
\* a resolved velocity together with the vector the swept-movement solver
\* returned on the way to it
Swept(r, out) == [v |-> r.v, finite |-> r.finite, swept |-> out]
Resolved(r) == [v |-> r.v, finite |-> r.finite]

\* variant that keeps the solver's component along up
calculateAirVelocity_SolverUp(mode, dt, upWorld, currentVelocity, orientation, dir, boost) ==
    LET speed == IF boost THEN TDiv(SPEED_IN_AIR * BOOST_MULTIPLIER, ONE) ELSE SPEED_IN_AIR
        desiredVelocity == applyYaw(<<dir[1] * speed, dir[2] * speed, dir[3] * speed>>, orientation)
        out0 == calculateMovement(mode, currentVelocity, Zero, desiredVelocity)
    IN  Swept(Finite(VAdd(out0, VScale(CHARACTER_GRAVITY, dt))), out0)

calculateAirVelocity(mode, dt, upWorld, currentVelocity, orientation, dir, boost) ==
    LET speed == IF boost THEN TDiv(SPEED_IN_AIR * BOOST_MULTIPLIER, ONE) ELSE SPEED_IN_AIR
        desiredVelocity == applyYaw(<<dir[1] * speed, dir[2] * speed, dir[3] * speed>>, orientation)
        out0 == calculateMovement(mode, currentVelocity, Zero, desiredVelocity)
        out1 == VAdd(out0, VScale(upWorld, -Dot(out0, upWorld)))
        out2 == VAdd(out1, VScale(upWorld, Dot(currentVelocity, upWorld)))
    IN  Swept(Finite(VAdd(out2, VScale(CHARACTER_GRAVITY, dt))), out0)

inv1k == 1

\* variant that returns the swept velocity when the surface is vertical
reproject_Guarded(surfaceNormal, outputVelocity, upWorld) ==
    LET velLen == Length(outputVelocity)
        unit == NormalizeFromLength(outputVelocity, velLen)
        normalUp == Dot(surfaceNormal, upWorld)
        horizLen == TDiv(velLen * ONE, normalUp)
        c == Cross(surfaceNormal, unit)
    IN  IF normalUp = 0 THEN Finite(outputVelocity)
        ELSE Finite(VScale(Cross(c, upWorld), horizLen))

\* variant that rescales the swept velocity without the two cross products
reproject_Rescaled(surfaceNormal, outputVelocity, upWorld) ==
    LET velLen == Length(outputVelocity)
        unit == NormalizeFromLength(outputVelocity, velLen)
        normalUp == Dot(surfaceNormal, upWorld)
        horizLen == TDiv(velLen * ONE, normalUp)
    IN  IF normalUp = 0 THEN NonFinite
        ELSE Finite(VScale(unit, horizLen))

\* the body of the if: a zero surfaceNormal . up makes horizLen infinite and
\* every component of the scaled vector infinite or NaN
reproject(surfaceNormal, outputVelocity, upWorld) ==
    LET velLen == Length(outputVelocity)
        unit == NormalizeFromLength(outputVelocity, velLen)
        normalUp == Dot(surfaceNormal, upWorld)
        horizLen == TDiv(velLen * ONE, normalUp)
        c == Cross(surfaceNormal, unit)
    IN  IF normalUp = 0 THEN NonFinite
        ELSE Finite(VScale(Cross(c, upWorld), horizLen))

\* variant that adds the surface velocity back after the reprojection
calculateGroundVelocity_Readds(mode, dt, upWorld, currentVelocity, supportInfo, orientation, dir, boost) ==
    LET speed == IF boost THEN TDiv(SPEED_ON_GROUND * BOOST_MULTIPLIER, ONE) ELSE SPEED_ON_GROUND
        desiredVelocity == applyYaw(<<dir[1] * speed, dir[2] * speed, dir[3] * speed>>, orientation)
        out0 == calculateMovement(mode, currentVelocity,
                                  supportInfo.averageSurfaceVelocity, desiredVelocity)
        rel == VSub(out0, supportInfo.averageSurfaceVelocity)
        again == reproject(supportInfo.averageSurfaceNormal, rel, upWorld)
    IN  IF Dot(rel, upWorld) > inv1k
        THEN Swept([again EXCEPT !.v = VAdd(@, supportInfo.averageSurfaceVelocity)], out0)
        ELSE Swept(Finite(VAdd(rel, supportInfo.averageSurfaceVelocity)), out0)

calculateGroundVelocity(mode, dt, upWorld, currentVelocity, supportInfo, orientation, dir, boost) ==
    LET speed == IF boost THEN TDiv(SPEED_ON_GROUND * BOOST_MULTIPLIER, ONE) ELSE SPEED_ON_GROUND
        desiredVelocity == applyYaw(<<dir[1] * speed, dir[2] * speed, dir[3] * speed>>, orientation)
        out0 == calculateMovement(mode, currentVelocity,
                                  supportInfo.averageSurfaceVelocity, desiredVelocity)
        rel == VSub(out0, supportInfo.averageSurfaceVelocity)
    IN  IF Dot(rel, upWorld) > inv1k
        THEN Swept(reproject(supportInfo.averageSurfaceNormal, rel, upWorld), out0)
        ELSE Swept(Finite(VAdd(rel, supportInfo.averageSurfaceVelocity)), out0)

\* variant adding the launch speed to the current vertical speed
calculateJumpVelocity_Additive(currentVelocity, upWorld) ==
    LET u == Sqrt(TDiv(2 * Length(CHARACTER_GRAVITY) * JUMP_HEIGHT, ONE))
    IN  VAdd(currentVelocity, VScale(upWorld, u))

calculateJumpVelocity(currentVelocity, upWorld) ==
    LET u == Sqrt(TDiv(2 * Length(CHARACTER_GRAVITY) * JUMP_HEIGHT, ONE))
        curRelVel == Dot(currentVelocity, upWorld)
    IN  VAdd(currentVelocity, VScale(upWorld, u - curRelVel))

\* an entry of calls: the operation, the stamp of the support information
\* passed to it (NoSupport when it takes none), the locomotion state it
\* starts from and the one it returns or switches on ("-" when it has none)
NoSupport == -1
Call(op, tick, from, st) == [op |-> op, tick |-> tick, from |-> from, st |-> st]

\* no support information has been obtained
NoSupportInfo ==
    [supportedState |-> "UNSUPPORTED", averageSurfaceNormal |-> <<0, 1000, 0>>,
     averageSurfaceVelocity |-> Zero, tick |-> NoSupport]

\* the working state of one updatePhysics invocation
Context(st, vel, finite) ==
    [state |-> st, velocity |-> vel, finite |-> finite,
     support |-> NoSupportInfo, desired |-> Finite(Zero), swept |-> sweptVelocity,
     calls |-> <<>>]

\* variant that queries the engine and drops the answer
checkSupport_Dropped(ctx, info) ==
    [ctx EXCEPT !.calls = Append(@, Call("checkSupport", info.tick, "-", "-"))]

\* const support = this.characterController.checkSupport(deltaTime, down)
checkSupport(ctx, info) ==
    [ctx EXCEPT !.support = info,
                !.calls = Append(@, Call("checkSupport", info.tick, "-", "-"))]

\* variant switching on the state held before the transition
switchState_Before(before, nextState) == before

\* the state the switch of calculateDesiredVelocity reads
switchState(before, nextState) == nextState

calculateDesiredVelocity(ctx, mode, dt, orientation, dir, jump, boost) ==
    LET nextState == getNextState(ctx.state, ctx.support, jump)
        upWorld == VScale(Normalize(CHARACTER_GRAVITY), -ONE)
        currentVelocity == ctx.velocity
        st == switchState(ctx.state, nextState)
        poisoned(r) == IF ctx.finite THEN r ELSE NonFinite
        afterNext == Append(ctx.calls, Call("getNextState", ctx.support.tick, ctx.state, nextState))
        result ==
            CASE st = IN_AIR ->
                    [resolved |-> calculateAirVelocity(mode, dt, upWorld,
                                     currentVelocity, orientation, dir, boost),
                     call |-> Call("calculateAirVelocity", NoSupport, "-", st)]
              [] st = ON_GROUND ->
                    [resolved |-> calculateGroundVelocity(mode, dt, upWorld,
                                     currentVelocity, ctx.support, orientation, dir, boost),
                     call |-> Call("calculateGroundVelocity", ctx.support.tick, "-", st)]
              [] st = START_JUMP ->
                    [resolved |-> Swept(Finite(calculateJumpVelocity(currentVelocity, upWorld)),
                                        ctx.swept),
                     call |-> Call("calculateJumpVelocity", NoSupport, "-", st)]
              [] OTHER ->
                    [resolved |-> Swept(Finite(Zero), ctx.swept),
                     call |-> Call("default", NoSupport, "-", st)]
    IN  [ctx EXCEPT !.state = nextState,
                    !.desired = poisoned(Resolved(result.resolved)),
                    !.swept = result.resolved.swept,
                    !.calls = Append(afterNext, result.call)]

\* this.characterController.setVelocity(desiredVelocity)
setVelocity(ctx) ==
    [ctx EXCEPT !.velocity = ctx.desired.v,
                !.finite = ctx.desired.finite,
                !.calls = Append(@, Call("setVelocity", NoSupport, "-", "-"))]

\* this.characterController.integrate(deltaTime, support, CHARACTER_GRAVITY)
integrate(ctx, imode) ==
    [ctx EXCEPT !.velocity = IF imode = "free" THEN @ ELSE Zero,
                !.calls = Append(@, Call("integrate", ctx.support.tick, "-", "-"))]

\* variant that only skips an undefined frame time
skipTick_UndefinedOnly(sceneDeltaTime) == sceneDeltaTime = UNDEFINED

\* the two early returns of updatePhysics
skipTick(sceneDeltaTime) ==
    \/ sceneDeltaTime = UNDEFINED \/ sceneDeltaTime = 0
    \/ TDiv(sceneDeltaTime * ONE, 1000) = 0

updatePhysics(sceneDeltaTime, info, mode, imode) ==
    /\ deltaTime' = sceneDeltaTime
    /\ tickId' = 1 - tickId
    /\ IF skipTick(sceneDeltaTime)
       THEN /\ calls' = <<>>
            /\ UNCHANGED <<state, velocity, velocityFinite, support, setVelocityArg,
                           sweptVelocity>>
       ELSE \E supported \in {checkSupport(Context(state, velocity, velocityFinite), info)} :
            \E resolved \in {calculateDesiredVelocity(supported, mode,
                                 TDiv(sceneDeltaTime * ONE, 1000), rotationY,
                                 inputDirection, wantJump, isBoosting)} :
            \E handed \in {setVelocity(resolved)} :
            \E done \in {integrate(handed, imode)} :
                /\ state' = done.state
                /\ velocity' = done.velocity
                /\ velocityFinite' = done.finite
                /\ calls' = done.calls
                /\ support' = done.support
                /\ setVelocityArg' = done.desired.v
                /\ sweptVelocity' = done.swept
                /\ done.velocity[2] >= -MaxFall
    /\ UNCHANGED <<inputVars, rotationY, cameraVars, charVars, rigVars>>
    /\ UNCHANGED walkRequested
    /\ UNCHANGED hudVars
    /\ UNCHANGED managerVars

----------------------------------------------------------------------------
(* Pointer drag: SmoothFollowCameraController.handlePointer *)

MaxCamera == 12000  \* largest |component| of the camera position explored

\* clientX / clientY and movementX / movementY of pointer events, in pixels
PointerCoords == {0, 50}
PointerMovements == {-50, 0, 50}

\* variant in which a new drag cancels a running lerp
handlePointerDown_Cancels(clientX, clientY) ==
    /\ isDragging' = TRUE
    /\ lastPointerX' = clientX
    /\ lastPointerY' = clientY
    /\ dragDeltaX' = 0
    /\ dragDeltaZ' = 0
    /\ isRotatingCharacter' = FALSE
    /\ UNCHANGED <<shouldStartRotationOnWalk, characterRotationStartY,
                   characterRotationTargetY, characterRotationStartTime>>
    /\ UNCHANGED <<cameraPosition, cameraLocked, now, followRan>>
    /\ UNCHANGED <<inputVars, physVars, rotationY, cameraVars, charVars>>
    /\ UNCHANGED walkRequested
    /\ UNCHANGED hudVars
    /\ UNCHANGED managerVars

handlePointerDown(clientX, clientY) ==
    /\ isDragging' = TRUE
    /\ lastPointerX' = clientX
    /\ lastPointerY' = clientY
    /\ dragDeltaX' = 0
    /\ dragDeltaZ' = 0
    /\ UNCHANGED <<cameraPosition, cameraLocked, lerpVars, now, followRan>>
    /\ UNCHANGED <<inputVars, physVars, rotationY, cameraVars, charVars>>
    /\ UNCHANGED walkRequested
    /\ UNCHANGED hudVars
    /\ UNCHANGED managerVars

\* variant that reorients the character at once on release
handlePointerUp_Immediate ==
    /\ isDragging' = FALSE
    /\ dragDeltaX' = 0
    /\ dragDeltaZ' = 0
    /\ isRotatingCharacter' = TRUE
    /\ characterRotationStartY' = rotationY
    /\ characterRotationTargetY' = rotationY
    /\ characterRotationStartTime' = now
    /\ UNCHANGED <<lastPointerX, lastPointerY, cameraPosition, cameraLocked, now, followRan,
                   shouldStartRotationOnWalk>>
    /\ UNCHANGED <<inputVars, physVars, rotationY, cameraVars, charVars>>
    /\ UNCHANGED walkRequested
    /\ UNCHANGED hudVars
    /\ UNCHANGED managerVars

handlePointerUp ==
    /\ isDragging' = FALSE
    /\ dragDeltaX' = 0
    /\ dragDeltaZ' = 0
    /\ shouldStartRotationOnWalk' = TRUE
    /\ UNCHANGED <<lastPointerX, lastPointerY, cameraPosition, cameraLocked, now, followRan>>
    /\ UNCHANGED <<isRotatingCharacter, characterRotationStartY, characterRotationTargetY,
                   characterRotationStartTime>>
    /\ UNCHANGED <<inputVars, physVars, rotationY, cameraVars, charVars>>
    /\ UNCHANGED walkRequested
    /\ UNCHANGED hudVars
    /\ UNCHANGED managerVars

\* a || b on numbers
OrElse(a, b) == IF a # 0 THEN a ELSE b

\* camera.position after updateCameraPosition
draggedPosition(pos, frame, deltaX, deltaZ) ==
    VAdd(VAdd(pos, VScale(frame.right, deltaX)), VScale(frame.up, deltaZ))

\* case POINTERMOVE, with handlePointerMove and updateCameraPosition
handlePointerMoveEvent(movementX, movementY, clientX, clientY, frame) ==
    /\ IF isDragging
       THEN LET deltaX == OrElse(movementX, clientX - lastPointerX)
                deltaY == OrElse(movementY, clientY - lastPointerY)
            IN  /\ lastPointerX' = clientX
                /\ lastPointerY' = clientY
                /\ dragDeltaX' = -deltaX * DRAG_SENSITIVITY
                /\ dragDeltaZ' = deltaY * DRAG_SENSITIVITY
                /\ cameraPosition' = draggedPosition(cameraPosition, frame,
                                         -deltaX * DRAG_SENSITIVITY, deltaY * DRAG_SENSITIVITY)
                /\ \A i \in 1..3 : Abs(cameraPosition'[i]) <= MaxCamera
                /\ cameraLocked' = FALSE
       ELSE UNCHANGED <<lastPointerX, lastPointerY, dragDeltaX, dragDeltaZ,
                        cameraPosition, cameraLocked>>
    /\ UNCHANGED <<isDragging, lerpVars, now, followRan>>
    /\ UNCHANGED <<inputVars, physVars, rotationY, cameraVars, charVars>>
    /\ UNCHANGED walkRequested
    /\ UNCHANGED hudVars
    /\ UNCHANGED managerVars

----------------------------------------------------------------------------
(* Render frame: CharacterController.updateCharacter, then *)
(* SmoothFollowCameraController.updateCamera               *)

MaxClock == 1100    \* last instant, in milliseconds, at which a frame is rendered
LoopClock == 600    \* the same for the game loop as a whole
MaxYaw   == 9000    \* largest |targetRotationY| explored

PI == 1800

\* time between two render frames, in milliseconds
FrameTimes == {300}

\* position the physics engine reports for the character
Positions == {<<3000, 300, -8000>>}

\* BABYLON.Scalar.Lerp on fixed-point numbers, amount in thousandths
Lerp(start, end, amount) == start + TDiv((end - start) * amount, ONE)

\* arc tangent of z in [0, 1], in tenths of a degree
AtanUnit(z) == TDiv(450 * z, ONE)
               + TDiv(z * (ONE - z) * (1402 + TDiv(380 * z, ONE)), 10000000)

\* Math.atan2(y, x) in tenths of a degree, within (-PI, PI]
Atan2(y, x) ==
    IF x = 0 /\ y = 0 THEN 0
    ELSE LET ax == Abs(x)
             ay == Abs(y)
             first == IF ay <= ax THEN AtanUnit(TDiv(ay * ONE, ax))
                      ELSE 900 - AtanUnit(TDiv(ax * ONE, ay))
             half == IF x < 0 THEN PI - first ELSE first
         IN  IF y < 0 THEN -half ELSE half

\* variant that wraps a single time
WrapDown_Once(d) == IF d > PI THEN d - 2 * PI ELSE d

RECURSIVE WrapDown(_)
\* while (rotationDifference > Math.PI) rotationDifference -= 2 * Math.PI
WrapDown(d) == IF d > PI THEN WrapDown(d - 2 * PI) ELSE d

RECURSIVE WrapUp(_)
\* while (rotationDifference < -Math.PI) rotationDifference += 2 * Math.PI
WrapUp(d) == IF d < -PI THEN WrapUp(d + 2 * PI) ELSE d

\* progress is in thousandths
easeInOutCubic(t) ==
    IF t < 500 THEN TDiv(4 * t * t * t, ONE * ONE)
    ELSE ONE - TDiv(TDiv((-2 * t + 2 * ONE) * (-2 * t + 2 * ONE) * (-2 * t + 2 * ONE),
                         ONE * ONE), 2)

characterRotationDuration == 500

\* the fields one render frame works on
Frame ==
    [rotationY |-> rotationY, targetRotationY |-> targetRotationY,
     capsulePosition |-> capsulePosition, walkPlaying |-> walkPlaying,
     idlePlaying |-> idlePlaying, cameraPosition |-> cameraPosition,
     cameraLocked |-> cameraLocked, offset |-> offset,
     shouldStartRotationOnWalk |-> shouldStartRotationOnWalk,
     isRotatingCharacter |-> isRotatingCharacter,
     characterRotationStartY |-> characterRotationStartY,
     characterRotationTargetY |-> characterRotationTargetY,
     characterRotationStartTime |-> characterRotationStartTime,
     followRan |-> FALSE]

\* variant in which the turn keys stay in control during a lerp
updateRotation_Always(f, held) ==
    LET left == IF "a" \in held \/ "arrowleft" \in held
                THEN f.targetRotationY - ROTATION_SPEED ELSE f.targetRotationY
        both == IF "d" \in held \/ "arrowright" \in held
                THEN left + ROTATION_SPEED ELSE left
    IN  [f EXCEPT !.targetRotationY = both,
                  !.rotationY = f.rotationY
                                + TDiv((both - f.rotationY) * ROTATION_SMOOTHING, ONE)]

updateRotation(f, held) ==
    IF f.isRotatingCharacter
    THEN [f EXCEPT !.targetRotationY = f.rotationY]
    ELSE LET left == IF "a" \in held \/ "arrowleft" \in held
                     THEN f.targetRotationY - ROTATION_SPEED ELSE f.targetRotationY
             both == IF "d" \in held \/ "arrowright" \in held
                     THEN left + ROTATION_SPEED ELSE left
         IN  [f EXCEPT !.targetRotationY = both,
                       !.rotationY = f.rotationY
                                     + TDiv((both - f.rotationY) * ROTATION_SMOOTHING, ONE)]

\* the copy into displayCapsule.position; the player mesh mirrors it
updatePosition(f, position) == [f EXCEPT !.capsulePosition = position]

startCharacterRotationLerp(f, time) ==
    LET toCamera == Normalize(VSub(f.cameraPosition, f.capsulePosition))
        targetYaw == Atan2(-toCamera[1], -toCamera[3])
        currentYaw == f.rotationY
        rotationDifference == WrapUp(WrapDown(targetYaw - currentYaw))
    IN  [f EXCEPT !.isRotatingCharacter = TRUE,
                  !.characterRotationStartY = currentYaw,
                  !.characterRotationTargetY = currentYaw + rotationDifference,
                  !.characterRotationStartTime = time]

\* variant that reorients on every walk start
checkForWalkActivation_Unarmed(f, time) ==
    startCharacterRotationLerp([f EXCEPT !.shouldStartRotationOnWalk = FALSE], time)

checkForWalkActivation(f, time) ==
    IF f.shouldStartRotationOnWalk
    THEN startCharacterRotationLerp([f EXCEPT !.shouldStartRotationOnWalk = FALSE], time)
    ELSE f

\* variant that starts the walk animation without stopping the idle one
updateAnimations_KeepsIdle(f, loaded, held, time) ==
    IF ~loaded THEN f
    ELSE IF isAnyMovementKeyPressed(held)
         THEN IF ~f.walkPlaying
              THEN checkForWalkActivation([f EXCEPT !.walkPlaying = TRUE], time)
              ELSE f
         ELSE IF ~f.idlePlaying
              THEN [f EXCEPT !.walkPlaying = FALSE, !.idlePlaying = TRUE]
              ELSE f

\* variant that runs the walk-activation hook in every frame with movement
updateAnimations_HookEveryFrame(f, loaded, held, time) ==
    IF ~loaded THEN f
    ELSE IF isAnyMovementKeyPressed(held)
         THEN checkForWalkActivation([f EXCEPT !.idlePlaying = FALSE,
                                               !.walkPlaying = TRUE], time)
         ELSE IF ~f.idlePlaying
              THEN [f EXCEPT !.walkPlaying = FALSE, !.idlePlaying = TRUE]
              ELSE f

updateAnimations(f, loaded, held, time) ==
    IF ~loaded THEN f
    ELSE IF isAnyMovementKeyPressed(held)
         THEN IF ~f.walkPlaying
              THEN checkForWalkActivation([f EXCEPT !.idlePlaying = FALSE,
                                                    !.walkPlaying = TRUE], time)
              ELSE f
         ELSE IF ~f.idlePlaying
              THEN [f EXCEPT !.walkPlaying = FALSE, !.idlePlaying = TRUE]
              ELSE f

smoothFollowTarget(f) ==
    IF f.isRotatingCharacter THEN f
    ELSE LET rotatedOffset == applyYaw(f.offset, f.rotationY)
             desiredPos == VAdd(f.capsulePosition, rotatedOffset)
             normalizedOffset == TDiv((f.offset[3] - ZOOM_MIN) * ONE, ZOOM_MAX - ZOOM_MIN)
             dynamicSmoothing == Lerp(50, 250, normalizedOffset)
         IN  [f EXCEPT !.cameraPosition =
                           <<Lerp(f.cameraPosition[1], desiredPos[1], dynamicSmoothing),
                             Lerp(f.cameraPosition[2], desiredPos[2], dynamicSmoothing),
                             Lerp(f.cameraPosition[3], desiredPos[3], dynamicSmoothing)>>,
                       !.cameraLocked = TRUE,
                       !.followRan = TRUE]

updateOffsetY(f) ==
    [f EXCEPT !.offset = [f.offset EXCEPT ![2] = f.cameraPosition[2] - f.capsulePosition[2]]]

updateCharacterRotationLerp(f, time) ==
    IF ~f.isRotatingCharacter THEN f
    ELSE LET elapsed == time - f.characterRotationStartTime
             ratio == TDiv(elapsed * ONE, characterRotationDuration)
             progress == IF ratio < ONE THEN ratio ELSE ONE
             easedProgress == easeInOutCubic(progress)
             currentRotation == Lerp(f.characterRotationStartY,
                                     f.characterRotationTargetY, easedProgress)
         IN  [f EXCEPT !.rotationY = currentRotation,
                       !.isRotatingCharacter = ~(progress >= ONE)]

\* variant in which a drag pauses the rotation lerp
updateCamera_DragPauses(f, dragging, time) ==
    IF ~dragging
    THEN updateCharacterRotationLerp(
             IF ~f.shouldStartRotationOnWalk THEN smoothFollowTarget(f) ELSE f, time)
    ELSE updateOffsetY(f)

\* variant that follows also while the rotation waits for the next walk
updateCamera_Unarmed(f, dragging, time) ==
    LET moved == IF ~dragging THEN smoothFollowTarget(f) ELSE updateOffsetY(f)
    IN  updateCharacterRotationLerp(moved, time)

updateCamera(f, dragging, time) ==
    LET moved == IF ~dragging
                 THEN IF ~f.shouldStartRotationOnWalk THEN smoothFollowTarget(f) ELSE f
                 ELSE updateOffsetY(f)
    IN  updateCharacterRotationLerp(moved, time)

\* one render frame: the clock has advanced by frameTime and the engine
\* reports position for the character
RenderFrame(frameTime, position) ==
    /\ now' = now + frameTime
    /\ \E rotated \in {updateRotation(Frame, keysDown)} :
       \E placed \in {updatePosition(rotated, position)} :
       \E animated \in {updateAnimations(placed, animationsLoaded, keysDown, now')} :
       \E f \in {updateCamera(animated, isDragging, now')} :
            /\ Abs(f.targetRotationY) <= MaxYaw
            /\ rotationY' = f.rotationY
            /\ targetRotationY' = f.targetRotationY
            /\ capsulePosition' = f.capsulePosition
            /\ walkPlaying' = f.walkPlaying
            /\ idlePlaying' = f.idlePlaying
            /\ cameraPosition' = f.cameraPosition
            /\ cameraLocked' = f.cameraLocked
            /\ offset' = f.offset
            /\ shouldStartRotationOnWalk' = f.shouldStartRotationOnWalk
            /\ isRotatingCharacter' = f.isRotatingCharacter
            /\ characterRotationStartY' = f.characterRotationStartY
            /\ characterRotationTargetY' = f.characterRotationTargetY
            /\ characterRotationStartTime' = f.characterRotationStartTime
            /\ followRan' = f.followRan
    /\ walkRequested' = FALSE
    /\ UNCHANGED hudVars
    /\ UNCHANGED managerVars
    /\ UNCHANGED <<animationsLoaded, pointerVars>>
    /\ UNCHANGED <<isTwoFingerPanning, lastPanPositions, lastGesture>>
    /\ UNCHANGED <<inputVars, physVars>>

\* the callback of loadCharacterModel: both animation groups found and stopped
LoadCharacterModel ==
    /\ ~animationsLoaded
    /\ animationsLoaded' = TRUE
    /\ walkPlaying' = FALSE
    /\ idlePlaying' = FALSE
    /\ UNCHANGED <<targetRotationY, capsulePosition>>
    /\ UNCHANGED <<inputVars, physVars, rotationY, cameraVars, rigVars>>
    /\ UNCHANGED walkRequested
    /\ UNCHANGED hudVars
    /\ UNCHANGED managerVars

----------------------------------------------------------------------------
(* HUD: HUDManager of src/unnamed/part_000 *)

\* CONFIG.HUD.POSITION; CONFIG is declared as const and nothing assigns it
HUD_POSITION == "top"

HUDPositions == {"top", "bottom", "left", "right"}

\* the ids of the elements createHUD creates
HUDElementIds == {"coordinates", "time", "fps", "state", "boost", "credits"}

\* the switch of getHUDContainerStyles: the edges the container is pinned to
\* and the direction its elements flow in
positionStyles(position) ==
    CASE position = "top"    -> [edges |-> {"top", "left", "right"}, direction |-> "row"]
      [] position = "bottom" -> [edges |-> {"bottom", "left", "right"}, direction |-> "row"]
      [] position = "left"   -> [edges |-> {"top", "left", "bottom"}, direction |-> "column"]
      [] position = "right"  -> [edges |-> {"top", "right", "bottom"}, direction |-> "column"]
      [] OTHER               -> [edges |-> {}, direction |-> ""]

\* getHUDContainerStyles takes no argument: it reads the position from CONFIG
getHUDContainerStyles == positionStyles(HUD_POSITION)

\* the state before HUDManager.initialize
HUDInit ==
    /\ hudContainer = NULL
    /\ hudDisplay = "none"
    /\ hudElements = <<>>
    /\ hudRequested = ""

\* the rest of the program leaves the HUD alone
HUDFrame ==
    /\ UNCHANGED <<inputVars, physVars, rotationY, cameraVars, charVars, rigVars>>
    /\ UNCHANGED walkRequested
    /\ UNCHANGED managerVars

\* initialize -> createHUD; without a rendering canvas createHUD returns early
HUDInitialize(hasCanvas) ==
    /\ IF hasCanvas
       THEN /\ hudContainer' = getHUDContainerStyles
            /\ hudDisplay' = "flex"
            /\ hudElements' = [id \in HUDElementIds |-> ""]
       ELSE UNCHANGED <<hudContainer, hudDisplay, hudElements>>
    /\ UNCHANGED hudRequested
    /\ HUDFrame

\* element.style.display = visible ? 'block' : 'none', if the element exists
setElementVisibility(elements, elementId, visible) ==
    IF elementId \in DOMAIN elements
    THEN [elements EXCEPT ![elementId] = IF visible THEN "block" ELSE "none"]
    ELSE elements

HUDSetElementVisibility(elementId, visible) ==
    /\ hudElements' = setElementVisibility(hudElements, elementId, visible)
    /\ UNCHANGED <<hudContainer, hudDisplay, hudRequested>>
    /\ HUDFrame

\* the SHOW_ keys of a configuration and the elements they govern
ShowKeys == [SHOW_COORDINATES |-> "coordinates", SHOW_TIME |-> "time", SHOW_FPS |-> "fps",
             SHOW_STATE |-> "state", SHOW_BOOST_STATUS |-> "boost",
             SHOW_CREDITS |-> "credits"]

\* the visibility updates of updateConfig, key by key
RECURSIVE applyShowKeys(_, _, _)
applyShowKeys(elements, newConfig, keys) ==
    IF keys = {} THEN elements
    ELSE LET k == CHOOSE x \in keys : TRUE
             next == IF k \in DOMAIN newConfig
                     THEN setElementVisibility(elements, ShowKeys[k], newConfig[k])
                     ELSE elements
         IN  applyShowKeys(next, newConfig, keys \ {k})

\* updateConfig(newConfig); newConfig holds the keys the caller passed.
\* Assigning cssText replaces the whole inline style, display included.
updateConfig(newConfig) ==
    /\ IF hudContainer # NULL /\ "POSITION" \in DOMAIN newConfig
       THEN /\ hudContainer' = getHUDContainerStyles
            /\ hudDisplay' = "flex"
       ELSE UNCHANGED <<hudContainer, hudDisplay>>
    /\ hudElements' = applyShowKeys([id \in DOMAIN hudElements |-> ""], newConfig,
                                    DOMAIN ShowKeys)
    /\ hudRequested' = IF "POSITION" \in DOMAIN newConfig THEN newConfig.POSITION
                       ELSE hudRequested
    /\ HUDFrame

\* setPosition(position)
setPosition(position) == updateConfig([POSITION |-> position])

\* setVisibility(visible)
setVisibility(visible) ==
    /\ IF hudContainer # NULL
       THEN hudDisplay' = IF visible THEN "flex" ELSE "none"
       ELSE UNCHANGED hudDisplay
    /\ UNCHANGED <<hudContainer, hudElements, hudRequested>>
    /\ HUDFrame

----------------------------------------------------------------------------
(* Collectibles: CollectiblesManager of src/unnamed/part_000 *)

COLLECTION_RADIUS       == 1500
creditValue             == 100
minImpulseForCollection == 500

\* the crates of setupCollectibles, crate_instance_1 to crate_instance_5, in
\* the order in which they enter the collectibles map
cratePositions ==
    <<<<4000, 500, -8000>>, <<-4000, 500, -8000>>, <<0, 500, -5000>>,
      <<4000, 500, -11000>>, <<-4000, 500, -11000>>>>

\* BABYLON.Vector3.Distance
Distance(a, b) == Length(VSub(a, b))

\* the awaits of setupCollectibles, in order; setupStep is the index of the
\* one that is pending, 0 before the first call and past the end once the
\* call has returned
SetupSteps == <<"physics", "model", "crate", "crate", "crate", "crate", "crate", "detect">>

SetupOver == Len(SetupSteps) + 1

Items == [collectibles |-> collectibles, collectedItems |-> collectedItems,
          totalCredits |-> totalCredits]

CollectiblesInit ==
    /\ collectiblesScene = FALSE
    /\ instanceBasis = FALSE
    /\ collectionObserver = FALSE
    /\ collectibles = {}
    /\ collectedItems = {}
    /\ totalCredits = 0
    /\ setupStep = 0

\* the rest of the program leaves the collectibles alone, and they it
CollectiblesFrame ==
    /\ UNCHANGED <<inputVars, physVars, rotationY, cameraVars, charVars, rigVars>>
    /\ UNCHANGED walkRequested
    /\ UNCHANGED <<hudVars, effectVars>>

removeCollectible(items, collectibleId) ==
    IF collectibleId \in items.collectibles
    THEN [items EXCEPT !.collectibles = @ \ {collectibleId}]
    ELSE items

\* variant that leaves the collected mesh in the map
collectItem_KeepsMesh(items, collectibleId) ==
    [items EXCEPT !.collectedItems = @ \cup {collectibleId},
                  !.totalCredits = @ + creditValue]

collectItem(items, collectibleId) ==
    removeCollectible([items EXCEPT !.collectedItems = @ \cup {collectibleId},
                                    !.totalCredits = @ + creditValue],
                      collectibleId)

\* variant that collects at any speed
attemptCollection_AnySpeed(items, collectibleId, characterVelocity) ==
    collectItem(items, collectibleId)

attemptCollection(items, collectibleId, characterVelocity) ==
    IF Length(characterVelocity) >= minImpulseForCollection
    THEN collectItem(items, collectibleId)
    ELSE items

\* the loop of checkCollisions over the entries of the map, from entry id on
RECURSIVE checkCollisionsFrom(_, _, _, _)
checkCollisionsFrom(items, id, characterPosition, characterVelocity) ==
    IF id > Len(cratePositions) THEN items
    ELSE LET visited ==
                 IF id \notin items.collectibles \/ id \in items.collectedItems
                 THEN items
                 ELSE IF Distance(characterPosition, cratePositions[id])
                            <= COLLECTION_RADIUS
                      THEN attemptCollection(items, id, characterVelocity)
                      ELSE items
         IN  checkCollisionsFrom(visited, id + 1, characterPosition, characterVelocity)

checkCollisions(items, characterPosition, characterVelocity) ==
    checkCollisionsFrom(items, 1, characterPosition, characterVelocity)

\* initialize(scene, characterController), up to the first await of
\* setupCollectibles
CollectiblesInitialize ==
    /\ collectiblesScene' = TRUE
    /\ totalCredits' = 0
    /\ setupStep' = 1
    /\ UNCHANGED <<instanceBasis, collectionObserver, collectibles, collectedItems>>
    /\ UNCHANGED <<capsulePosition, velocity>>
    /\ CollectiblesFrame

\* createCollectibleInstance(id, position); created is FALSE when the engine
\* throws before the instance is stored
createCollectibleInstance(id, created) ==
    IF ~collectiblesScene \/ ~instanceBasis \/ ~created
    THEN UNCHANGED collectibles
    ELSE collectibles' = collectibles \cup {id}

\* setupCollectibles resumes after the await it is pending on and runs to
\* its next one; loaded tells whether the crate model came with geometry
SetupCollectibles(loaded, created) ==
    /\ setupStep \in 1..Len(SetupSteps)
    /\ setupStep' = setupStep + 1
    /\ CASE SetupSteps[setupStep] = "physics" ->
                /\ collectiblesScene
                /\ UNCHANGED <<instanceBasis, collectibles, collectionObserver>>
         [] SetupSteps[setupStep] = "model" ->
                /\ instanceBasis' = (loaded \/ collectiblesScene \/ instanceBasis)
                /\ UNCHANGED <<collectibles, collectionObserver>>
         [] SetupSteps[setupStep] = "crate" ->
                /\ createCollectibleInstance(setupStep - 2, created)
                /\ UNCHANGED <<instanceBasis, collectionObserver>>
         [] SetupSteps[setupStep] = "detect" ->
                /\ collectionObserver' = (collectionObserver \/ collectiblesScene)
                /\ UNCHANGED <<instanceBasis, collectibles>>
    /\ UNCHANGED <<collectiblesScene, collectedItems, totalCredits>>
    /\ UNCHANGED <<capsulePosition, velocity>>
    /\ CollectiblesFrame

\* one render frame as the collectibles see it: the character has moved to
\* characterPosition with characterVelocity, and the collision observer, if
\* registered, runs checkCollisions
CollectiblesRender(characterPosition, characterVelocity) ==
    /\ capsulePosition' = characterPosition
    /\ velocity' = characterVelocity
    /\ IF collectionObserver
       THEN \E items \in {checkCollisions(Items, characterPosition, characterVelocity)} :
                /\ collectibles' = items.collectibles
                /\ collectedItems' = items.collectedItems
                /\ totalCredits' = items.totalCredits
       ELSE UNCHANGED <<collectibles, collectedItems, totalCredits>>
    /\ UNCHANGED <<collectiblesScene, instanceBasis, collectionObserver, setupStep>>
    /\ UNCHANGED <<inputVars, state, velocityFinite, deltaTime, tickId, calls, support,
                   setVelocityArg, sweptVelocity, rotationY, cameraVars>>
    /\ UNCHANGED <<targetRotationY, animationsLoaded, walkPlaying, idlePlaying, rigVars>>
    /\ UNCHANGED walkRequested
    /\ UNCHANGED <<hudVars, effectVars>>

\* dispose(); a setup still waiting for the physics engine never resumes
CollectiblesDispose ==
    /\ collectibles' = {}
    /\ collectionObserver' = FALSE
    /\ instanceBasis' = FALSE
    /\ collectiblesScene' = FALSE
    /\ totalCredits' = 0
    /\ collectedItems' = {}
    /\ setupStep' = IF setupStep \in 1..Len(SetupSteps) /\ SetupSteps[setupStep] = "physics"
                    THEN SetupOver ELSE setupStep
    /\ UNCHANGED <<capsulePosition, velocity>>
    /\ CollectiblesFrame

----------------------------------------------------------------------------
(* Effects: EffectsManager of src/playground.ts *)

\* names of CONFIG.EFFECTS.PARTICLE_SNIPPETS the model calls for
PARTICLE_SNIPPETS == {"Fire Trail", "Magic Sparkles"}

\* `${snippetName}_${Date.now()}`
uniqueNameOf(snippetName, time) == <<snippetName, time>>

EffectsInit ==
    /\ effectsScene = FALSE
    /\ activeParticleSystems = <<>>
    /\ particleCalls = <<>>
    /\ particleSystems = {}
    /\ disposedSystems = {}

\* the rest of the program leaves the effects alone, and they it
EffectsFrame ==
    /\ UNCHANGED <<inputVars, physVars, rotationY, cameraVars, charVars, rigVars>>
    /\ UNCHANGED walkRequested
    /\ UNCHANGED <<hudVars, itemVars>>

\* Map.set
MapSet(map, key, value) ==
    [k \in DOMAIN map \cup {key} |-> IF k = key THEN value ELSE map[k]]

\* Map.delete
MapDelete(map, key) == [k \in DOMAIN map \ {key} |-> map[k]]

\* initialize(scene)
EffectsInitialize ==
    /\ effectsScene' = TRUE
    /\ UNCHANGED <<activeParticleSystems, particleCalls, particleSystems, disposedSystems>>
    /\ EffectsFrame

\* createParticleSystem(snippetName, emitter) up to its await: the call
\* returns null without a scene or for an unknown snippet, and otherwise
\* waits for the snippet with the name it has made up
createParticleSystem(snippetName) ==
    /\ IF ~effectsScene \/ snippetName \notin PARTICLE_SNIPPETS
       THEN UNCHANGED particleCalls
       ELSE particleCalls' = Append(particleCalls, uniqueNameOf(snippetName, now))
    /\ UNCHANGED <<effectsScene, activeParticleSystems, particleSystems, disposedSystems>>
    /\ EffectsFrame

\* this.activeParticleSystems.set(uniqueName, particleSystem)
storeParticleSystem(map, uniqueName, particleSystem) ==
    MapSet(map, uniqueName, particleSystem)

\* createParticleSystem after its await, for the pending call at index call:
\* ParseFromSnippetAsync has handed out a new particle system (parsed), or
\* has returned null or thrown
ParticleSystemParsed(call, parsed) ==
    /\ call \in 1..Len(particleCalls)
    /\ particleCalls' = [i \in 1..(Len(particleCalls) - 1) |->
                            IF i < call THEN particleCalls[i] ELSE particleCalls[i + 1]]
    /\ IF parsed
       THEN \E particleSystem \in {Cardinality(particleSystems) + 1} :
                /\ particleSystems' = particleSystems \cup {particleSystem}
                /\ activeParticleSystems' =
                       storeParticleSystem(activeParticleSystems, particleCalls[call],
                                           particleSystem)
       ELSE UNCHANGED <<particleSystems, activeParticleSystems>>
    /\ UNCHANGED <<effectsScene, disposedSystems>>
    /\ EffectsFrame

\* removeParticleSystem(systemName)
removeParticleSystem(systemName) ==
    /\ IF systemName \in DOMAIN activeParticleSystems
       THEN /\ disposedSystems' = disposedSystems \cup {activeParticleSystems[systemName]}
            /\ activeParticleSystems' = MapDelete(activeParticleSystems, systemName)
       ELSE UNCHANGED <<disposedSystems, activeParticleSystems>>
    /\ UNCHANGED <<effectsScene, particleCalls, particleSystems>>
    /\ EffectsFrame

\* removeAllParticleSystems()
removeAllParticleSystems ==
    /\ disposedSystems' = disposedSystems
                            \cup {activeParticleSystems[k] : k \in DOMAIN activeParticleSystems}
    /\ activeParticleSystems' = <<>>
    /\ UNCHANGED <<effectsScene, particleCalls, particleSystems>>
    /\ EffectsFrame


----------------------------------------------------------------------------
(* Specifications *)

Init ==
    /\ keysDown = {}
    /\ inputDirection = Zero
    /\ wantJump = FALSE
    /\ isBoosting = FALSE
    /\ capsuleVisible = FALSE
    /\ lastKeyEvent = <<"NONE", "">>
    /\ state = IN_AIR
    /\ velocity = Zero
    /\ velocityFinite = TRUE
    /\ rotationY = 0
    /\ deltaTime = UNDEFINED
    /\ tickId = 0
    /\ calls = <<>>
    /\ support = NoSupportInfo
    /\ setVelocityArg = Zero
    /\ sweptVelocity = Zero
    /\ offset = CAMERA_OFFSET
    /\ isTwoFingerPanning = FALSE
    /\ lastPanPositions = NULL
    /\ lastGesture = "none"
    /\ targetRotationY = 0
    /\ capsulePosition = Zero
    /\ animationsLoaded = FALSE
    /\ walkPlaying = FALSE
    /\ idlePlaying = FALSE
    /\ cameraPosition = CAMERA_START_POSITION
    /\ cameraLocked = FALSE
    /\ isDragging = FALSE
    /\ dragDeltaX = 0
    /\ dragDeltaZ = 0
    /\ lastPointerX = 0
    /\ lastPointerY = 0
    /\ shouldStartRotationOnWalk = FALSE
    /\ isRotatingCharacter = FALSE
    /\ characterRotationStartY = 0
    /\ characterRotationTargetY = 0
    /\ characterRotationStartTime = 0
    /\ now = 0
    /\ followRan = FALSE
    /\ walkRequested = FALSE
    /\ HUDInit
    /\ CollectiblesInit
    /\ EffectsInit

\* key events alone
KeyDownEvent == \E eventKey \in EventKeys : KeyDown(eventKey)
KeyUpEvent == \E eventKey \in EventKeys : KeyUp(eventKey)

NextInput == KeyDownEvent \/ KeyUpEvent

SpecInput == Init /\ [][NextInput]_vars

\* camera gestures alone
WheelEvent == \E deltaX \in WheelDeltas : handleWheel(deltaX)
TouchStartEvent == \E touches \in TouchLists : handleTouchStart(touches)
TouchMoveEvent == \E touches \in TouchLists, frame \in CameraFrames : handleTouchMove(touches, frame)
TouchEndEvent == \E remaining \in 0..2 : handleTouchEnd(remaining)

NextCamera == WheelEvent \/ TouchStartEvent \/ TouchMoveEvent \/ TouchEndEvent

SpecCamera == Init /\ [][NextCamera]_vars

\* physics ticks interleaved with the keys the resolver reads
PhysicsKeys == {"W", " "}
PhysicsKeyDown == \E eventKey \in PhysicsKeys : KeyDown(eventKey)
PhysicsKeyUp == \E eventKey \in PhysicsKeys : KeyUp(eventKey)
PhysicsTick ==
    \E sceneDeltaTime \in DeltaTimes :
        IF skipTick(sceneDeltaTime)
        THEN updatePhysics(sceneDeltaTime, NoSupportInfo, "reach", "free")
        ELSE \E info \in SupportInfos(1 - tickId), mode \in SolverModes \ {"keep"},
                imode \in IntegrateModes :
                 updatePhysics(sceneDeltaTime, info, mode, imode)

NextPhysics == PhysicsKeyDown \/ PhysicsKeyUp \/ PhysicsTick

SpecPhysics == Init /\ [][NextPhysics]_vars

\* the game loop: physics ticks and render frames interleaved with key
\* events, the asset callback and a pointer drag
LoopKeys == {" ", "d"}
LoopKeyDown == \E eventKey \in LoopKeys : KeyDown(eventKey)
LoopKeyUp == \E eventKey \in LoopKeys : KeyUp(eventKey)
\* ticks of the loop stand on level ground, slide on it or find nothing
LoopSupports(tick) == {SupportInfo(s, <<<<0, 1000, 0>>, Zero>>, tick) : s \in SupportedStates}
LoopTick ==
    \E sceneDeltaTime \in DeltaTimes \ {UNDEFINED} :
        IF skipTick(sceneDeltaTime)
        THEN updatePhysics(sceneDeltaTime, NoSupportInfo, "reach", "free")
        ELSE \E info \in LoopSupports(1 - tickId) :
                 updatePhysics(sceneDeltaTime, info, "reach", "free")
LoopFrame ==
    \E frameTime \in FrameTimes, position \in Positions :
        now + frameTime <= LoopClock /\ RenderFrame(frameTime, position)
LoopPointerDown == handlePointerDown(0, 0)
LoopPointerUp == handlePointerUp

NextLoop ==
    \/ LoopKeyDown \/ LoopKeyUp \/ LoopTick \/ LoopFrame
    \/ LoadCharacterModel \/ LoopPointerDown \/ LoopPointerUp

SpecLoop == Init /\ [][NextLoop]_vars

\* key events of both intent axes interleaved with physics ticks
AxisKeys == {"w", "ArrowUp", "s", "q", "e"}
AxisKeyDown == \E eventKey \in AxisKeys : KeyDown(eventKey)
AxisKeyUp == \E eventKey \in AxisKeys : KeyUp(eventKey)
AxisTick ==
    \E sceneDeltaTime \in DeltaTimes \ {UNDEFINED} :
        IF skipTick(sceneDeltaTime)
        THEN updatePhysics(sceneDeltaTime, NoSupportInfo, "reach", "free")
        ELSE \E info \in LoopSupports(1 - tickId) :
                 updatePhysics(sceneDeltaTime, info, "reach", "free")

NextAxes == AxisKeyDown \/ AxisKeyUp \/ AxisTick

SpecAxes == Init /\ [][NextAxes]_vars

\* events of a key that no mapping names, among those of a movement key and
\* the jump key, interleaved with physics ticks
StrayKeys == {"w", " ", "x"}
StrayKeyDown == \E eventKey \in StrayKeys : KeyDown(eventKey)
StrayKeyUp == \E eventKey \in StrayKeys : KeyUp(eventKey)

NextStray == StrayKeyDown \/ StrayKeyUp \/ AxisTick

SpecStray == Init /\ [][NextStray]_vars

\* the HUD alone: its public operations in any order
HUDInitializeCall == \E hasCanvas \in BOOLEAN : HUDInitialize(hasCanvas)
HUDSetPosition == \E position \in HUDPositions : setPosition(position)
HUDSetElementVisibilityCall ==
    \E elementId \in HUDElementIds \cup {"score"}, visible \in BOOLEAN :
        HUDSetElementVisibility(elementId, visible)
HUDSetVisibility == \E visible \in BOOLEAN : setVisibility(visible)

NextHUD ==
    \/ HUDInitializeCall \/ HUDSetPosition
    \/ HUDSetElementVisibilityCall \/ HUDSetVisibility

SpecHUD == Init /\ [][NextHUD]_vars

\* the two-finger pan alone: touch events with one, two and three touch
\* points under both camera orientations
MaxPan == 5000  \* largest |component| of the panned distance explored

PanTouchPoints == {<<0, 0>>, <<25, 0>>, <<0, 25>>}
PanTouchLists ==
    [1..2 -> PanTouchPoints] \cup {<<<<0, 0>>>>, <<<<0, 0>>, <<25, 0>>, <<0, 25>>>>}

PanTouchStart == \E touches \in PanTouchLists : handleTouchStart(touches)
PanTouchMove ==
    \E touches \in PanTouchLists, frame \in CameraFrames :
        /\ handleTouchMove(touches, frame)
        /\ \A i \in 1..3 : Abs(offset'[i] - CAMERA_OFFSET[i]) <= MaxPan
PanTouchEnd == \E remaining \in 0..2 : handleTouchEnd(remaining)

NextPan == PanTouchStart \/ PanTouchMove \/ PanTouchEnd

SpecPan == Init /\ [][NextPan]_vars

\* the follow blend after the camera's gestures: wheel zooms and two-finger
\* pans interleaved with render frames
FollowWheel == handleWheel(100)
FollowTouchStart == handleTouchStart(<<<<0, 0>>, <<0, 0>>>>)
FollowTouchMove ==
    \E touches \in {<<<<0, 0>>, <<0, 0>>>>, <<<<0, 25>>, <<0, 25>>>>},
       frame \in {c \in CameraFrames : c.forward = <<0, 0, 1000>>} :
        /\ handleTouchMove(touches, frame)
        /\ \A i \in 1..3 : Abs(offset'[i] - CAMERA_OFFSET[i]) <= MaxPan
FollowTouchEnd == handleTouchEnd(0)
FollowFrame ==
    \E frameTime \in FrameTimes, position \in Positions :
        now + frameTime <= LoopClock /\ RenderFrame(frameTime, position)

NextFollow ==
    FollowWheel \/ FollowTouchStart \/ FollowTouchMove \/ FollowTouchEnd \/ FollowFrame

SpecFollow == Init /\ [][NextFollow]_vars

\* the collectibles: one manager life after another, the setup resuming at its
\* awaits between render frames that bring the character to a place at a speed
CharacterPlaces ==
    {<<3000, 300, -8000>>, <<0, 300, -5000>>, <<-4000, 300, -9500>>,
     <<4000, 500, -9500>>, <<-4000, 500, -11000>>}
CharacterVelocities == {<<0, 0, 0>>, <<300, 0, 0>>, <<300, 0, 400>>, <<0, 0, 4000>>}

CollectInitialize ==
    ~collectiblesScene /\ setupStep \in {0, SetupOver} /\ CollectiblesInitialize
CollectSetup == \E loaded \in BOOLEAN, created \in BOOLEAN : SetupCollectibles(loaded, created)
CollectRender ==
    \E characterPosition \in CharacterPlaces, characterVelocity \in CharacterVelocities :
        CollectiblesRender(characterPosition, characterVelocity)
CollectDispose == collectiblesScene /\ CollectiblesDispose

NextCollect == CollectInitialize \/ CollectSetup \/ CollectRender \/ CollectDispose

SpecCollect == Init /\ [][NextCollect]_vars

\* the effects manager: calls of createParticleSystem that overlap in time,
\* with the millisecond clock advancing between some of them and not others
MaxSystems      == 3  \* particle systems handed out by the snippet parser
MaxPending      == 2  \* createParticleSystem calls waiting at once
MaxEffectsClock == 1  \* last millisecond at which a call is made

EffectsCreate ==
    \E snippetName \in PARTICLE_SNIPPETS \cup {"Smoke Ring"} :
        Len(particleCalls) < MaxPending /\ createParticleSystem(snippetName)
EffectsParsed ==
    \E call \in 1..MaxPending, parsed \in BOOLEAN :
        /\ parsed => Cardinality(particleSystems) < MaxSystems
        /\ ParticleSystemParsed(call, parsed)
EffectsRemove ==
    \E systemName \in DOMAIN activeParticleSystems : removeParticleSystem(systemName)
EffectsRemoveAll == removeAllParticleSystems
EffectsClock ==
    /\ now < MaxEffectsClock
    /\ now' = now + 1
    /\ UNCHANGED <<inputVars, physVars, rotationY, cameraVars, charVars, cameraPosition,
                   cameraLocked, pointerVars, lerpVars, followRan, walkRequested>>
    /\ UNCHANGED <<hudVars, managerVars>>

NextEffects ==
    \/ EffectsInitialize \/ EffectsCreate \/ EffectsParsed
    \/ EffectsRemove \/ EffectsRemoveAll \/ EffectsClock

SpecEffects == Init /\ [][NextEffects]_vars

\* the rotation lerp: render frames interleaved with a pointer drag, key
\* events and the camera's wheel and touch gestures
LerpKeys == {"w", "d"}
LerpFrameTimes == {200, 300}
LerpKeyDown == \E eventKey \in LerpKeys : KeyDown(eventKey)
LerpKeyUp == \E eventKey \in LerpKeys : KeyUp(eventKey)
LerpFrame ==
    \E frameTime \in LerpFrameTimes, position \in Positions :
        now + frameTime <= MaxClock /\ RenderFrame(frameTime, position)
LerpPointerDown == handlePointerDown(0, 0)
LerpPointerUp == handlePointerUp

NextLerp ==
    \/ LerpKeyDown \/ LerpKeyUp \/ LerpFrame \/ LoadCharacterModel
    \/ LerpPointerDown \/ LerpPointerUp

SpecLerp == Init /\ [][NextLerp]_vars

\* a running rotation lerp against every event the camera and the character
\* listen to
EventFrame ==
    \E frameTime \in FrameTimes, position \in Positions :
        now + frameTime <= LoopClock /\ RenderFrame(frameTime, position)
EventKeyDown == KeyDown("w")
EventKeyUp == KeyUp("w")
EventPointerDown == handlePointerDown(25, 0)
EventPointerUp == handlePointerUp
\* the gestures below are delivered while a lerp is running
EventPointerMove ==
    \E frame \in CameraFrames :
        isRotatingCharacter /\ dragDeltaX = 0 /\ handlePointerMoveEvent(50, 0, 50, 0, frame)
EventWheel == isRotatingCharacter /\ handleWheel(100)
EventTouchStart == isRotatingCharacter /\ handleTouchStart(<<<<0, 0>>, <<0, 0>>>>)
EventTouchMove ==
    \E frame \in CameraFrames :
        isRotatingCharacter /\ handleTouchMove(<<<<0, 0>>, <<0, 0>>>>, frame)
EventTouchEnd == isRotatingCharacter /\ handleTouchEnd(0)

NextLerpEvents ==
    \/ EventFrame \/ EventKeyDown \/ EventKeyUp \/ LoadCharacterModel
    \/ EventPointerDown \/ EventPointerMove \/ EventPointerUp
    \/ EventWheel \/ EventTouchStart \/ EventTouchMove \/ EventTouchEnd

SpecLerpEvents == Init /\ [][NextLerpEvents]_vars

\* the rotation lerp with the render loop kept running: the frame callbacks
\* fire for as long as a lerp is active, the user's events end with the clock
LiveKeyDown == now <= MaxClock /\ KeyDown("w")
LiveKeyUp == now <= MaxClock /\ KeyUp("w")
LivePointerUp == now <= MaxClock /\ handlePointerUp
LiveLoad == now <= MaxClock /\ LoadCharacterModel
LiveFrame ==
    \E frameTime \in LerpFrameTimes, position \in Positions :
        /\ isRotatingCharacter \/ now + frameTime <= MaxClock
        /\ RenderFrame(frameTime, position)

NextLerpLive == LiveKeyDown \/ LiveKeyUp \/ LivePointerUp \/ LiveLoad \/ LiveFrame

\* ENABLED <<LiveFrame>>_vars, spelled out: a frame always advances the clock
LiveFrameEnabled ==
    \E frameTime \in LerpFrameTimes : isRotatingCharacter \/ now + frameTime <= MaxClock

\* weak fairness of the render loop, WF_vars(LiveFrame), with the enabling
\* condition above in the place of ENABLED
SpecLerpLive ==
    /\ Init /\ [][NextLerpLive]_vars
    /\ ([]<>(~LiveFrameEnabled) \/ []<><<LiveFrame>>_vars)

\* the start of a rotation lerp as a function: a walk begins after a drag
\* release, from every yaw the turn keys have accumulated and every place the
\* drag has left the camera
StartYaws == {-9000, -5400, -3601, -1800, -900, 0, 1, 1799, 1800, 3600, 5400, 9000}

LerpCameras ==
    {VAdd(position, <<x, 2000, z>>) :
        position \in Positions,
        x \in {-5000, 0, 5000}, z \in {-5000, 0, 5000}}
    \ {VAdd(position, <<0, 2000, 0>>) : position \in Positions}

InitLerpStart ==
    /\ keysDown = {"w"}
    /\ inputDirection = <<0, 0, 1>>
    /\ wantJump = FALSE
    /\ isBoosting = FALSE
    /\ capsuleVisible = FALSE
    /\ lastKeyEvent = <<"KEYDOWN", "w">>
    /\ state = IN_AIR
    /\ velocity = Zero
    /\ velocityFinite = TRUE
    /\ rotationY \in StartYaws
    /\ deltaTime = UNDEFINED
    /\ tickId = 0
    /\ calls = <<>>
    /\ support = NoSupportInfo
    /\ setVelocityArg = Zero
    /\ sweptVelocity = Zero
    /\ offset = CAMERA_OFFSET
    /\ isTwoFingerPanning = FALSE
    /\ lastPanPositions = NULL
    /\ lastGesture = "none"
    /\ targetRotationY = rotationY
    /\ capsulePosition \in Positions
    /\ animationsLoaded = TRUE
    /\ walkPlaying = FALSE
    /\ idlePlaying = TRUE
    /\ cameraPosition \in LerpCameras
    /\ cameraLocked = FALSE
    /\ isDragging \in BOOLEAN
    /\ dragDeltaX = 0
    /\ dragDeltaZ = 0
    /\ lastPointerX = 0
    /\ lastPointerY = 0
    /\ shouldStartRotationOnWalk = TRUE
    /\ isRotatingCharacter = FALSE
    /\ characterRotationStartY = 0
    /\ characterRotationTargetY = 0
    /\ characterRotationStartTime = 0
    /\ now = 0
    /\ followRan = FALSE
    /\ walkRequested = FALSE
    /\ HUDInit
    /\ CollectiblesInit
    /\ EffectsInit

LerpStartFrame ==
    \E frameTime \in FrameTimes, position \in Positions :
        now + frameTime <= LoopClock /\ RenderFrame(frameTime, position)

NextLerpStart == LerpStartFrame

SpecLerpStart == InitLerpStart /\ [][NextLerpStart]_vars

\* the resolver as a function: one physics tick from every combination of
\* locomotion state, current velocity and held keys
VelocityInputs ==
    {<<x, y, z>> : x \in {0, 3000}, y \in {-2000, 0, 1, 2, 5000}, z \in {-4000, 0}}

ResolverKeys == {"w", "q", " ", "shift"}

InitResolver ==
    /\ keysDown \in SUBSET ResolverKeys
    /\ inputDirection = <<IF "q" \in keysDown THEN -1 ELSE 0, 0,
                          IF "w" \in keysDown THEN 1 ELSE 0>>
    /\ wantJump = (" " \in keysDown)
    /\ isBoosting = ("shift" \in keysDown)
    /\ capsuleVisible = FALSE
    /\ lastKeyEvent = <<"NONE", "">>
    /\ state \in {IN_AIR, ON_GROUND, START_JUMP}
    /\ velocity \in VelocityInputs
    /\ velocityFinite = TRUE
    /\ rotationY \in {0, 900}
    /\ deltaTime = UNDEFINED
    /\ tickId = 0
    /\ calls = <<>>
    /\ support = NoSupportInfo
    /\ setVelocityArg = Zero
    /\ sweptVelocity = Zero
    /\ offset = CAMERA_OFFSET
    /\ isTwoFingerPanning = FALSE
    /\ lastPanPositions = NULL
    /\ lastGesture = "none"
    /\ targetRotationY = 0
    /\ capsulePosition = Zero
    /\ animationsLoaded = FALSE
    /\ walkPlaying = FALSE
    /\ idlePlaying = FALSE
    /\ cameraPosition = CAMERA_START_POSITION
    /\ cameraLocked = FALSE
    /\ isDragging = FALSE
    /\ dragDeltaX = 0
    /\ dragDeltaZ = 0
    /\ lastPointerX = 0
    /\ lastPointerY = 0
    /\ shouldStartRotationOnWalk = FALSE
    /\ isRotatingCharacter = FALSE
    /\ characterRotationStartY = 0
    /\ characterRotationTargetY = 0
    /\ characterRotationStartTime = 0
    /\ now = 0
    /\ followRan = FALSE
    /\ walkRequested = FALSE
    /\ HUDInit
    /\ CollectiblesInit
    /\ EffectsInit

ResolveTick ==
    /\ tickId = 0
    /\ \E info \in SupportInfos(1 - tickId), mode \in SolverModes, imode \in IntegrateModes :
            updatePhysics(100, info, mode, imode)

NextResolver == ResolveTick

SpecResolver == InitResolver /\ [][NextResolver]_vars

----------------------------------------------------------------------------
(* Properties *)

\* a step in which updatePhysics ran past its early returns
TickExecuted == tickId' # tickId /\ calls' # <<>>

\* the resolver operation that belongs to a locomotion state
BranchFor(st) ==
    CASE st = IN_AIR     -> "calculateAirVelocity"
      [] st = ON_GROUND  -> "calculateGroundVelocity"
      [] st = START_JUMP -> "calculateJumpVelocity"
      [] OTHER           -> "default"

\* C1: after every wheel event and every two-finger-pan touch move, offset.z
\* lies within [ZOOM_MIN, ZOOM_MAX].
C1_OffsetDepthInRange == ZOOM_MIN <= offset[3] /\ offset[3] <= ZOOM_MAX

\* C2: the strafe axis inputDirection.x changes only on events of the strafe
\* keys q/e, and the forward/back axis inputDirection.z only on events of
\* the forward/backward keys.
C2_AxesChangeOnlyOnOwnKeys ==
    [][/\ inputDirection'[1] # inputDirection[1]
            => lastKeyEvent'[2] \in STRAFE_LEFT \cup STRAFE_RIGHT
       /\ inputDirection'[3] # inputDirection[3]
            => lastKeyEvent'[2] \in FORWARD \cup BACKWARD]_vars

\* C3: an executed tick that starts in ON_GROUND ends in IN_AIR when the
\* support check reports anything but supported (whatever wantJump is), in
\* START_JUMP when supported and wantJump holds, and in ON_GROUND otherwise.
C3_GroundedTransition ==
    [][(TickExecuted /\ state = ON_GROUND)
          => state' = IF support'.supportedState # "SUPPORTED" THEN IN_AIR
                      ELSE IF wantJump THEN START_JUMP ELSE ON_GROUND]_vars

C3_Witness ==
    /\ calls # <<>>
    /\ calls[2].from = ON_GROUND
    /\ state = START_JUMP
    /\ support.supportedState = "SUPPORTED"

\* C4: an executed tick that starts in IN_AIR ends in ON_GROUND exactly when
\* the support check reports supported and otherwise stays in IN_AIR,
\* whatever wantJump is.
C4_AirborneTransition ==
    [][(TickExecuted /\ state = IN_AIR)
          => /\ state' \in {IN_AIR, ON_GROUND}
             /\ state' = ON_GROUND <=> support'.supportedState = "SUPPORTED"]_vars

C4_Witness ==
    /\ calls # <<>>
    /\ calls[2].from = IN_AIR
    /\ state = ON_GROUND
    /\ wantJump

\* C5: an executed tick that starts in START_JUMP ends in IN_AIR, whatever
\* the support check reports and whatever wantJump is, so START_JUMP never
\* lasts two executed ticks.
C5_JumpStartOneTick ==
    [][(TickExecuted /\ state = START_JUMP) => state' = IN_AIR]_vars

C5_Witness ==
    /\ calls # <<>>
    /\ calls[2].from = START_JUMP
    /\ state = IN_AIR
    /\ support.supportedState = "SUPPORTED"
    /\ wantJump

\* C7: every executed tick makes exactly the calls checkSupport, getNextState,
\* one resolver branch, setVelocity, integrate, in this order, and the
\* support information passed to getNextState, to the ground resolver and to
\* integrate is the one checkSupport returned in this invocation.
C7_TickOrder ==
    calls # <<>> =>
        /\ Len(calls) = 5
        /\ calls[1].op = "checkSupport" /\ calls[1].tick = tickId
        /\ calls[2].op = "getNextState" /\ calls[2].tick = tickId
        /\ calls[3].op \in {"calculateAirVelocity", "calculateGroundVelocity",
                            "calculateJumpVelocity"}
        /\ calls[3].op = "calculateGroundVelocity" => calls[3].tick = tickId
        /\ calls[4].op = "setVelocity"
        /\ calls[5].op = "integrate" /\ calls[5].tick = tickId
        /\ support.tick = tickId

C7_Witness ==
    /\ calls # <<>>
    /\ calls[3].op = "calculateGroundVelocity"
    /\ tickId = 0
    /\ deltaTime = 100

\* C8: in an executed tick the resolver branch is the one of the state the
\* transition of this tick returned, that state is the one retained, and the
\* transition started from the state retained by the previous tick.
C8_BranchOfNewState ==
    [][TickExecuted
          => /\ calls'[3].op = BranchFor(calls'[2].st)
             /\ calls'[3].st = calls'[2].st
             /\ state' = calls'[2].st
             /\ calls'[2].from = state]_vars

C8_Witness ==
    /\ calls # <<>>
    /\ calls[2].from = ON_GROUND
    /\ calls[2].st = START_JUMP
    /\ calls[3].op = "calculateJumpVelocity"

\* C9: an invocation of updatePhysics that finds scene.deltaTime zero or
\* undefined leaves the locomotion state and the velocity unchanged and calls
\* neither checkSupport, setVelocity nor integrate.
C9_ZeroDeltaIsNoOp ==
    [][(tickId' # tickId /\ deltaTime' \in {UNDEFINED, 0})
          => /\ state' = state
             /\ velocity' = velocity
             /\ velocityFinite' = velocityFinite
             /\ setVelocityArg' = setVelocityArg
             /\ calls' = <<>>]_vars

C9_Witness ==
    /\ deltaTime = 0
    /\ calls = <<>>
    /\ state = ON_GROUND
    /\ velocity # Zero

\* C10: the velocity resolved in START_JUMP has, along up, the launch speed u
\* with u*u = 2 * |gravity| * jumpHeight (to the last fixed-point digit), for
\* every current velocity, and keeps the current velocity's other components.
C10_JumpLaunchSpeed ==
    [][(TickExecuted /\ state' = START_JUMP)
          => LET u == setVelocityArg'[2]
                 uu == 2 * (-CHARACTER_GRAVITY[2]) * JUMP_HEIGHT
             IN  /\ u >= 0
                 /\ u * u <= uu
                 /\ (u + 1) * (u + 1) > uu
                 /\ setVelocityArg'[1] = velocity[1]
                 /\ setVelocityArg'[3] = velocity[3]]_vars

C10_Witness ==
    /\ calls # <<>>
    /\ state = START_JUMP
    /\ setVelocityArg = <<3000, 8485, -4000>>

\* C6: the character starts in the air, and under every interleaving of
\* physics ticks, render frames and input events its state is one of IN_AIR,
\* ON_GROUND and START_JUMP, so no tick takes the default branch of the
\* velocity switch
C6_StatesClosed ==
    /\ state = IN_AIR
    /\ [](/\ state \in {IN_AIR, ON_GROUND, START_JUMP}
          /\ \A i \in 1..Len(calls) : calls[i].op # "default")

\* a tick started a jump after a render frame and a key event
C6_Witness ==
    /\ state = START_JUMP
    /\ now > 0
    /\ lastKeyEvent[1] = "KEYDOWN"
    /\ calls # <<>>

\* C11: a tick that resolves the START_JUMP branch while the boost key is held
\* launches faster than the unboosted launch speed sqrt(2 * |gravity| *
\* JUMP_HEIGHT).
C11_BoostedJumpFaster ==
    [][(TickExecuted /\ state' = START_JUMP /\ isBoosting)
          => setVelocityArg'[2] * setVelocityArg'[2]
                 > 2 * (-CHARACTER_GRAVITY[2]) * JUMP_HEIGHT]_vars

\* a render frame in which a rotation lerp was started
LerpStarted == shouldStartRotationOnWalk /\ ~shouldStartRotationOnWalk'

\* C12: a rotation lerp started from yaw c toward the yaw t that faces away
\* from the camera stores the target c + d with -PI <= d <= PI and
\* c + d = t modulo 2 PI, for every c, also far outside [-PI, PI], and every
\* t in (-PI, PI].
C12_ShortestPath ==
    [][LerpStarted
          => LET toCamera == Normalize(VSub(cameraPosition', capsulePosition'))
                 t == Atan2(-toCamera[1], -toCamera[3])
                 c == characterRotationStartY'
                 d == characterRotationTargetY' - c
             IN  /\ c = rotationY'
                 /\ -PI < t /\ t <= PI
                 /\ -PI <= d /\ d <= PI
                 /\ (c + d - t) % (2 * PI) = 0]_vars

\* a lerp started from five half turns away took the short way round
C12_Witness ==
    /\ isRotatingCharacter
    /\ characterRotationStartY = 9000
    /\ characterRotationTargetY # 9000
    /\ Abs(characterRotationTargetY - 9000) <= PI

\* a step that is a render frame
FrameRendered == now' # now

\* the yaw the lerp holds at the end of a render frame
InterpolatedYaw ==
    LET elapsed == now' - characterRotationStartTime'
        ratio == TDiv(elapsed * ONE, characterRotationDuration)
        progress == IF ratio < ONE THEN ratio ELSE ONE
    IN  Lerp(characterRotationStartY', characterRotationTargetY', easeInOutCubic(progress))

\* C13: in every render frame that begins with isRotatingCharacter true the
\* held turn keys add nothing to targetRotationY, which takes the yaw the
\* frame began with, and the yaw at the end of the frame is the lerp's
\* interpolated value.
C13_LerpOwnsYaw ==
    [][(FrameRendered /\ isRotatingCharacter)
          => /\ targetRotationY' = rotationY
             /\ rotationY' = InterpolatedYaw]_vars

\* a frame was rendered during a lerp with a turn key held
C13_Witness ==
    /\ isRotatingCharacter
    /\ "d" \in keysDown
    /\ now > characterRotationStartTime
    /\ rotationY # characterRotationStartY
    /\ rotationY # characterRotationTargetY

\* the camera position a follow blend leaves at the end of a render frame
FollowBlend ==
    LET desiredPos == VAdd(capsulePosition', applyYaw(offset', rotationY'))
        normalizedOffset == TDiv((offset'[3] - ZOOM_MIN) * ONE, ZOOM_MAX - ZOOM_MIN)
        dynamicSmoothing == Lerp(50, 250, normalizedOffset)
    IN  <<Lerp(cameraPosition[1], desiredPos[1], dynamicSmoothing),
          Lerp(cameraPosition[2], desiredPos[2], dynamicSmoothing),
          Lerp(cameraPosition[3], desiredPos[3], dynamicSmoothing)>>

\* C14: a render frame runs the smooth-follow position blend if and only if
\* no drag is in progress, the rotate-on-next-walk flag is not armed and no
\* rotation lerp is active; every other frame leaves the camera position as
\* it was.
C14_FollowOnlyWhenFree ==
    [][FrameRendered
          => IF ~isDragging /\ ~shouldStartRotationOnWalk /\ ~isRotatingCharacter
             THEN /\ followRan'
                  /\ cameraPosition' = FollowBlend
                  /\ cameraLocked'
             ELSE /\ ~followRan'
                  /\ cameraPosition' = cameraPosition]_vars

\* the follow blend moved the camera again after a lerp had run to its end
C14_Witness ==
    /\ followRan
    /\ characterRotationStartTime > 0
    /\ ~isRotatingCharacter
    /\ cameraPosition # CAMERA_START_POSITION

\* a step in which a drag was released: only POINTERUP clears isDragging or
\* arms the flag
PointerReleased ==
    \/ isDragging /\ ~isDragging'
    \/ ~shouldStartRotationOnWalk /\ shouldStartRotationOnWalk'

\* C15: a pointer-up event arms the rotate-on-next-walk flag and clears the
\* dragging flag and both drag deltas, and changes nothing else: no rotation
\* lerp is started and the character's yaw stays as it is.
C15_ReleaseOnlyArms ==
    [][PointerReleased
          => /\ shouldStartRotationOnWalk'
             /\ ~isDragging'
             /\ dragDeltaX' = 0 /\ dragDeltaZ' = 0
             /\ UNCHANGED <<isRotatingCharacter, characterRotationStartY,
                            characterRotationTargetY, characterRotationStartTime>>
             /\ UNCHANGED <<rotationY, targetRotationY, cameraPosition, offset, now>>]_vars

\* a drag was released between two render frames while no lerp was running
C15_Witness ==
    /\ shouldStartRotationOnWalk
    /\ ~isDragging
    /\ dragDeltaX = 0
    /\ lastPointerX = 25
    /\ now > 0
    /\ ~isRotatingCharacter

\* a step in which a rotation lerp began, a running one included
LerpBegan ==
    /\ isRotatingCharacter'
    /\ ~isRotatingCharacter \/ characterRotationStartTime' # characterRotationStartTime

\* a render frame that starts the walk animation
WalkStarts == animationsLoaded /\ isAnyMovementKeyPressed(keysDown) /\ ~walkPlaying

\* C16: a rotation lerp begins exactly in a render frame that starts the walk
\* animation (animation groups loaded, a movement key held, walk animation
\* not playing) while the rotate-on-next-walk flag is armed; that frame clears
\* the flag and stamps the lerp with the frame's time.
C16_StartsOnWalkEdge ==
    [][/\ LerpBegan <=> (FrameRendered /\ shouldStartRotationOnWalk /\ WalkStarts)
       /\ LerpBegan => /\ ~shouldStartRotationOnWalk'
                       /\ characterRotationStartTime' = now'
                       /\ walkPlaying']_vars

\* a lerp began in the frame after a key press made movement active
C16_Witness ==
    /\ isRotatingCharacter
    /\ characterRotationStartTime = now
    /\ now > 0
    /\ ~shouldStartRotationOnWalk
    /\ walkPlaying
    /\ lastKeyEvent[1] = "KEYDOWN"

\* C16 as stated: once a drag release has armed the flag, the render frame
\* that follows the key press making movement input active starts a rotation
\* lerp and clears the flag, and a lerp begins only with the flag armed.
C16_StartsOnNextWalk ==
    [][/\ (FrameRendered /\ walkRequested /\ shouldStartRotationOnWalk)
            => (LerpBegan /\ ~shouldStartRotationOnWalk')
       /\ LerpBegan => shouldStartRotationOnWalk]_vars

\* instants at which a lerp can begin
StartTimes == {100 * t : t \in 0..((MaxClock \div 100) + 10)}

\* C17: a started rotation lerp completes: the first render frame with at
\* least 0.5 s elapsed since the lerp's start sets the yaw to the stored
\* target yaw and clears isRotatingCharacter, and with render frames kept
\* running every started lerp reaches that frame.
C17_LerpCompletes ==
    /\ [][(FrameRendered /\ isRotatingCharacter
              /\ now' - characterRotationStartTime >= characterRotationDuration)
            => (rotationY' = characterRotationTargetY /\ ~isRotatingCharacter')]_vars
    /\ \A s \in StartTimes :
           (isRotatingCharacter /\ characterRotationStartTime = s)
               ~> (/\ ~isRotatingCharacter
                   /\ characterRotationStartTime = s
                   /\ rotationY = characterRotationTargetY)

\* C18: while a rotation lerp is running no pointer, wheel, touch or key
\* event (nor the asset callback) clears isRotatingCharacter or changes the
\* lerp's start yaw, target yaw or start time, and a drag release during the
\* lerp re-arms the rotate-on-next-walk flag and changes nothing of the lerp.
C18_EventsLeaveLerp ==
    [][(isRotatingCharacter /\ ~FrameRendered)
          => /\ isRotatingCharacter'
             /\ UNCHANGED <<characterRotationStartY, characterRotationTargetY,
                            characterRotationStartTime, rotationY>>
             /\ PointerReleased => shouldStartRotationOnWalk']_vars

\* a lerp still running after a drag with a move and a release, a wheel
\* event, a two-finger touch and a key release
C18_Witness ==
    /\ isRotatingCharacter
    /\ shouldStartRotationOnWalk
    /\ ~isDragging
    /\ lastPointerX = 50
    /\ offset[3] = ZOOM_MAX
    /\ lastGesture = "touchend"
    /\ lastKeyEvent[1] = "KEYUP"

\* C19: every render frame runs the rotation-lerp update, with a drag in
\* progress or not: a lerp that is active when the camera is updated gets
\* the interpolated yaw of this frame's time and ends exactly when 0.5 s have
\* elapsed, so it progresses and completes while the pointer is held down.
C19_LerpRunsEveryFrame ==
    [][(FrameRendered /\ (isRotatingCharacter \/ LerpBegan))
          => /\ rotationY' = InterpolatedYaw
             /\ isRotatingCharacter'
                    <=> (now' - characterRotationStartTime' < characterRotationDuration)]_vars

\* a lerp ran to its end with the pointer held down
C19_Witness ==
    /\ isDragging
    /\ ~isRotatingCharacter
    /\ characterRotationStartTime > 0
    /\ now - characterRotationStartTime >= characterRotationDuration
    /\ rotationY = characterRotationTargetY
    /\ rotationY # 0

\* C20: after the key-up of a key mapped to an intent axis that axis is 0,
\* also when another key of the same axis is still held: forward and
\* backward keys clear inputDirection.z, strafe keys clear inputDirection.x.
C20_ReleaseClearsAxis ==
    lastKeyEvent[1] = "KEYUP"
        => /\ lastKeyEvent[2] \in FORWARD \cup BACKWARD => inputDirection[3] = 0
           /\ lastKeyEvent[2] \in STRAFE_LEFT \cup STRAFE_RIGHT => inputDirection[1] = 0

\* w was released with arrowup still held, and the forward axis is 0
C20_Witness ==
    /\ lastKeyEvent = <<"KEYUP", "w">>
    /\ "arrowup" \in keysDown
    /\ inputDirection[3] = 0

\* C21: whenever no forward or backward key is in the held-key set
\* inputDirection.z is 0, whenever no strafe key is in it inputDirection.x is
\* 0, and a physics tick changes neither axis.
C21_AxesNeutralWithoutKeys ==
    /\ []((keysDown \cap (FORWARD \cup BACKWARD) = {} => inputDirection[3] = 0)
          /\ (keysDown \cap (STRAFE_LEFT \cup STRAFE_RIGHT) = {} => inputDirection[1] = 0))
    /\ [][tickId' # tickId => inputDirection' = inputDirection]_vars

\* a tick ran with both axes set, and another after the strafe key was
\* released with the forward key still held
C21_Witness ==
    /\ calls # <<>>
    /\ lastKeyEvent = <<"KEYUP", "q">>
    /\ keysDown = {"w"}
    /\ inputDirection = <<0, 0, 1>>
    /\ setVelocityArg[3] # 0
    /\ setVelocityArg[1] = 0

\* C22: after any sequence of key events the movement-active predicate is
\* true if and only if a forward, backward, turn or strafe key is held (its
\* last event was a key-down), whatever the intent axes are.
C22_MovementActiveIffHeld ==
    /\ isAnyMovementKeyPressed(keysDown)
           <=> keysDown \cap (FORWARD \cup BACKWARD \cup LEFT \cup RIGHT
                                  \cup STRAFE_LEFT \cup STRAFE_RIGHT) # {}
    /\ lastKeyEvent[1] = "KEYDOWN" => lastKeyEvent[2] \in keysDown
    /\ lastKeyEvent[1] = "KEYUP" => lastKeyEvent[2] \notin keysDown

\* movement is active with both axes neutral: w was released while arrowup
\* is still held
C22_Witness ==
    /\ isAnyMovementKeyPressed(keysDown)
    /\ inputDirection = Zero
    /\ keysDown = {"arrowup"}
    /\ lastKeyEvent = <<"KEYUP", "w">>

\* C23: the velocity resolved in the IN_AIR branch has, along up, the current
\* velocity's up component minus |gravity| * dt, whatever the solver returned;
\* its two components orthogonal to up are the solver's.
C23_AirKeepsVerticalSpeed ==
    [][(TickExecuted /\ state' = IN_AIR)
          => LET dt == TDiv(deltaTime' * ONE, 1000)
             IN  /\ setVelocityArg'[2]
                        = velocity[2] - TDiv(Length(CHARACTER_GRAVITY) * dt, ONE)
                 /\ setVelocityArg'[1] = sweptVelocity'[1]
                 /\ setVelocityArg'[3] = sweptVelocity'[3]]_vars

\* the solver moved the character forward and returned the up component 2000;
\* the resolved velocity falls from the current 5000
C23_Witness ==
    /\ calls # <<>>
    /\ state = IN_AIR
    /\ keysDown = {"w"}
    /\ sweptVelocity[2] = 2000
    /\ setVelocityArg[2] = 3200
    /\ setVelocityArg[3] > 0

\* the up direction of the controller
Up == VScale(Normalize(CHARACTER_GRAVITY), -ONE)

\* a tick that resolved the ON_GROUND branch
GroundTick == TickExecuted /\ state' = ON_GROUND

\* the solver's output of that tick relative to the surface
SurfaceRelative == VSub(sweptVelocity', support'.averageSurfaceVelocity)

\* C24: the ON_GROUND branch reprojects exactly when the solver's output minus
\* the surface velocity has an up component above 1e-3; the reprojected vector
\* is then returned without the surface velocity, and otherwise the solver's
\* output is returned.
C24_ReprojectsAboveEpsilon ==
    [][GroundTick
          => IF Dot(SurfaceRelative, Up) > inv1k
             THEN [v |-> setVelocityArg', finite |-> velocityFinite']
                      = reproject(support'.averageSurfaceNormal, SurfaceRelative, Up)
             ELSE setVelocityArg' = sweptVelocity' /\ velocityFinite']_vars

\* on a platform moving at (1, 0, 0) the solver deflected the forward motion
\* upward; the reprojected velocity carries none of the platform's velocity
C24_Witness ==
    /\ calls # <<>>
    /\ state = ON_GROUND
    /\ support.averageSurfaceVelocity = <<1000, 0, 0>>
    /\ sweptVelocity = <<1000, 2000, 10000>>
    /\ setVelocityArg[1] = 0
    /\ setVelocityArg[2] = 0
    /\ setVelocityArg[3] > 9900

\* a ground tick that took the reprojection
Reprojects == GroundTick /\ Dot(SurfaceRelative, Up) > inv1k

\* C25: whenever the ON_GROUND branch reprojects on a surface whose normal is
\* not perpendicular to up, the returned velocity has no component along up.
C25_ReprojectedIsHorizontal ==
    [][(Reprojects /\ Dot(support'.averageSurfaceNormal, Up) # 0)
          => velocityFinite' /\ Dot(setVelocityArg', Up) = 0]_vars

\* on the slope the solver returned a rising velocity and the tick handed a
\* horizontal one to setVelocity
C25_Witness ==
    /\ calls # <<>>
    /\ state = ON_GROUND
    /\ support.averageSurfaceNormal = <<600, 800, 0>>
    /\ sweptVelocity[2] = 5000
    /\ setVelocityArg[2] = 0
    /\ setVelocityArg # Zero

\* C26: for a surface normal not parallel to up and a surface-relative
\* velocity with an up component above 1e-3, the reprojected velocity has the
\* magnitude of the surface-relative velocity (to 0.02, the rounding of the
\* fixed-point unit vector).
C26_SpeedPreserved ==
    [][(/\ Reprojects
        /\ Dot(support'.averageSurfaceNormal, Up) # 0
        /\ Cross(support'.averageSurfaceNormal, Up) # Zero)
          => Abs(Length(setVelocityArg') - Length(SurfaceRelative)) <= 20]_vars

\* C27: a ground tick whose support normal is perpendicular to up and whose
\* surface-relative velocity has an up component above 1e-3 divides by zero
\* and hands a non-finite velocity to setVelocity.
C27_VerticalSurfaceNonFinite ==
    [][(Reprojects /\ Dot(support'.averageSurfaceNormal, Up) = 0)
          => /\ ~velocityFinite'
             /\ \E i \in 1..Len(calls') : calls'[i].op = "setVelocity"]_vars

\* supported by a vertical wall, the tick reprojected a rising velocity
C27_Witness ==
    /\ calls # <<>>
    /\ state = ON_GROUND
    /\ support.averageSurfaceNormal = <<1000, 0, 0>>
    /\ sweptVelocity[2] = 2000
    /\ ~velocityFinite

\* the camera looking along +z with +x to its right
IdentityFrame == [right |-> <<1000, 0, 0>>, up |-> <<0, 1000, 0>>, forward |-> <<0, 0, 1000>>]

\* C28: a two-finger touch move whose midpoint moved by (dx, dy) since the
\* recorded positions adds -dx * s * 4 along camera-right and dy * s * 4 along
\* camera-forward to the offset (identity orientation: x falls by 4 s dx and z
\* grows by 4 s dy), leaves the camera position alone and records the current
\* positions; a touch move with one or three touches changes nothing.
C28_TwoFingerPan ==
    [][\A touches \in PanTouchLists, frame \in CameraFrames :
          handleTouchMove(touches, frame)
             => IF Len(touches) # 2
                THEN UNCHANGED <<offset, lastPanPositions, isTwoFingerPanning, cameraPosition>>
                ELSE (isTwoFingerPanning /\ lastPanPositions # NULL)
                        => LET dx == TDiv((touches[1][1] + touches[2][1]) * ONE, 2)
                                     - TDiv((lastPanPositions[1] + lastPanPositions[3]) * ONE, 2)
                               dy == TDiv((touches[1][2] + touches[2][2]) * ONE, 2)
                                     - TDiv((lastPanPositions[2] + lastPanPositions[4]) * ONE, 2)
                               ax == 4 * TDiv(dx * DRAG_SENSITIVITY, ONE)
                               ay == 4 * TDiv(dy * DRAG_SENSITIVITY, ONE)
                           IN  /\ offset' = VAdd(offset, VAdd(VScale(frame.right, -ax),
                                                               VScale(frame.forward, ay)))
                               /\ frame = IdentityFrame
                                     => offset' = <<offset[1] - ax, offset[2], offset[3] + ay>>
                               /\ lastPanPositions'
                                     = <<touches[1][1], touches[1][2], touches[2][1], touches[2][2]>>
                               /\ cameraPosition' = cameraPosition]_vars

\* the fingers moved from (0, 0) to (25, 0) and (0, 25), the midpoint by
\* (12.5, 12.5), under the identity orientation: x fell and z grew by
\* 4 * 0.02 * 12.5 = 1
C28_Witness ==
    /\ lastGesture = "touchmove"
    /\ isTwoFingerPanning
    /\ lastPanPositions = <<25, 0, 0, 25>>
    /\ offset = <<CAMERA_OFFSET[1] - 1000, CAMERA_OFFSET[2], CAMERA_OFFSET[3] + 1000>>
    /\ cameraPosition = CAMERA_START_POSITION

\* the keys of the events that appear in no list of INPUT_KEYS
UnmappedKeys ==
    {eventKey \in EventKeys :
        toLowerCase(eventKey) \notin (FORWARD \cup BACKWARD \cup LEFT \cup RIGHT
            \cup STRAFE_LEFT \cup STRAFE_RIGHT \cup JUMP \cup BOOST \cup DEBUG)}

\* C29: a key-down or key-up of a key in no input mapping leaves the intent
\* axes, wantJump, the boost flag, the movement-active predicate and the
\* locomotion state as they were; the handler completes and only records the
\* key as held or released.
C29_UnmappedKeysIgnored ==
    [][\A eventKey \in UnmappedKeys :
          (KeyDown(eventKey) \/ KeyUp(eventKey))
             => /\ UNCHANGED <<inputDirection, wantJump, isBoosting, state>>
                /\ isAnyMovementKeyPressed(keysDown') <=> isAnyMovementKeyPressed(keysDown)
                /\ lastKeyEvent'[2] = toLowerCase(eventKey)]_vars

\* x was pressed on the ground while w and the jump request were in effect
C29_Witness ==
    /\ lastKeyEvent = <<"KEYDOWN", "x">>
    /\ keysDown = {"w", "x"}
    /\ inputDirection = <<0, 0, 1>>
    /\ state = ON_GROUND
    /\ calls # <<>>

\* C30: setPosition(p) changes the position of the HUD: after the call the
\* container is laid out at p, for every p of top, bottom, left and right and
\* whatever its position was before.
C30_SetPositionMoves ==
    [][\A position \in HUDPositions :
          (setPosition(position) /\ hudContainer # NULL)
             => hudContainer' = positionStyles(position)]_vars

\* C31: there is no air jump.  An executed tick ends in START_JUMP only when
\* it started in ON_GROUND, the support check reports supported and the jump
\* key is held; the executed tick after a jump ends in IN_AIR and a tick that
\* starts in IN_AIR never ends in START_JUMP, so two ticks ending in
\* START_JUMP have a tick ending in IN_AIR and one ending in ON_GROUND between
\* them.
C31_NoAirJump ==
    [][TickExecuted
          => /\ state' = START_JUMP
                  => /\ state = ON_GROUND
                     /\ support'.supportedState = "SUPPORTED"
                     /\ wantJump
                     /\ \E key \in JUMP : key \in keysDown
             /\ state = START_JUMP => state' = IN_AIR
             /\ state = IN_AIR => state' # START_JUMP
             /\ state' = ON_GROUND => state # START_JUMP]_vars

\* a jump started from level ground with the jump key held
C31_Witness ==
    /\ calls # <<>>
    /\ state = START_JUMP
    /\ calls[2].from = ON_GROUND
    /\ " " \in keysDown
    /\ deltaTime = 100
    /\ support.averageSurfaceNormal = <<0, 1000, 0>>

\* C32: under every interleaving of key events and physics ticks wantJump is
\* true exactly while the jump key is held.  A tick leaves it as it is, so a
\* supported tick that starts in ON_GROUND with the key held ends in
\* START_JUMP every time, and a tick that finds the key released (pressed and
\* released since the last tick included) never does.
C32_WantJumpIsKeyHeld ==
    /\ [](wantJump <=> \E key \in JUMP : key \in keysDown)
    /\ [][TickExecuted
            => /\ wantJump' = wantJump
               /\ (/\ state = ON_GROUND
                   /\ support'.supportedState = "SUPPORTED"
                   /\ \E key \in JUMP : key \in keysDown) => state' = START_JUMP
               /\ (~\E key \in JUMP : key \in keysDown) => state' # START_JUMP]_vars

\* a jump started while the jump key was still held from before the last two
\* key events
C32_Witness ==
    /\ calls # <<>>
    /\ state = START_JUMP
    /\ wantJump
    /\ keysDown = {" "}
    /\ lastKeyEvent = <<"KEYUP", "w">>

\* C33: a flag armed by a drag release does not keep the follow paused while
\* a movement key is held, whether or not the walk animation was already
\* playing at the release: a render frame that finds the flag armed, the
\* animations loaded and a movement key held consumes the flag and begins the
\* lerp after which the follow resumes.  (Such a frame changes neither the
\* keys nor the walk animation, so a frame that leaves the flag armed is
\* followed only by frames that leave it armed.)
C33_FollowResumes ==
    [][(/\ FrameRendered
        /\ shouldStartRotationOnWalk
        /\ animationsLoaded
        /\ isAnyMovementKeyPressed(keysDown))
          => (~shouldStartRotationOnWalk' /\ LerpBegan)]_vars

\* C34: a rotation lerp is never restarted while one is in progress: no lerp
\* begins in a state where isRotatingCharacter holds, and the start yaw,
\* target yaw and start time of a running lerp stay as they are until it
\* completes.
C34_NoRestartWhileRotating ==
    [][/\ LerpBegan => ~isRotatingCharacter
       /\ (isRotatingCharacter /\ isRotatingCharacter')
            => UNCHANGED <<characterRotationStartY, characterRotationTargetY,
                           characterRotationStartTime>>]_vars

TurnKeyHeld == \E key \in LEFT \cup RIGHT : key \in keysDown

LerpCompletes == FrameRendered /\ isRotatingCharacter /\ ~isRotatingCharacter'

\* C35: in the frame that completes a rotation lerp with no turn key held the
\* keyboard target yaw ends equal to the lerp's final yaw, and a frame that
\* finds the two equal, no lerp running and no turn key held leaves the
\* character's yaw where the lerp put it.
C35_YawStaysAtLerpTarget ==
    [][/\ (LerpCompletes /\ ~TurnKeyHeld)
            => /\ rotationY' = characterRotationTargetY
               /\ targetRotationY' = rotationY'
       /\ (FrameRendered /\ ~isRotatingCharacter /\ ~isRotatingCharacter'
              /\ ~TurnKeyHeld /\ targetRotationY = rotationY)
            => rotationY' = rotationY]_vars

\* the zoom position and the blend factor smoothFollowTarget computes from an
\* offset
NormalizedZoom(off) == TDiv((off[3] - ZOOM_MIN) * ONE, ZOOM_MAX - ZOOM_MIN)

FollowSmoothing(off) == Lerp(50, 250, NormalizedZoom(off))

\* C36: in every frame in which the follow blend runs the normalized zoom is
\* within [0, 1] and the smoothing factor within [0.05, 0.25], whatever
\* wheel and pan gestures came before.
C36_SmoothingInRange ==
    [][(FrameRendered /\ followRan')
          => /\ NormalizedZoom(offset) >= 0 /\ NormalizedZoom(offset) <= ONE
             /\ FollowSmoothing(offset) >= 50 /\ FollowSmoothing(offset) <= 250]_vars

\* C37: once the animation groups are loaded, every render frame ends with
\* exactly one of the walk and idle animations playing, the walk animation
\* if and only if a movement key is held; and the walk-activation hook acts
\* (consumes the flag, begins a lerp) only in a frame that takes the walk
\* animation from not playing to playing.
C37_OneAnimationPlaying ==
    [][(FrameRendered /\ animationsLoaded)
          => /\ walkPlaying' <=> isAnyMovementKeyPressed(keysDown)
             /\ idlePlaying' <=> ~walkPlaying'
             /\ (LerpBegan \/ (shouldStartRotationOnWalk /\ ~shouldStartRotationOnWalk'))
                    => (~walkPlaying /\ walkPlaying')]_vars

\* a walk began with the flag armed, and a later frame, after the keys were
\* released, went back to the idle animation
C37_Witness ==
    /\ animationsLoaded
    /\ idlePlaying /\ ~walkPlaying
    /\ keysDown = {}
    /\ characterRotationStartTime > 0
    /\ now > characterRotationStartTime

Collected == collectedItems' \ collectedItems

\* C38: while the collectibles manager is initialized, totalCredits is
\* creditValue times the number of collected ids and no collected id is in
\* the collectibles map; an id is collected only in a frame in which its
\* crate is within COLLECTION_RADIUS of the character and the character's
\* speed is at least minImpulseForCollection; and within one life of the
\* manager a collected id stays collected and is paid for once.
C38_CollectedOnce ==
    /\ [](collectiblesScene
            => /\ totalCredits = creditValue * Cardinality(collectedItems)
               /\ collectedItems \cap collectibles = {})
    /\ [][/\ \A id \in Collected :
                /\ collectiblesScene /\ collectiblesScene'
                /\ id \in collectibles
                /\ Distance(capsulePosition', cratePositions[id]) <= COLLECTION_RADIUS
                /\ Length(velocity') >= minImpulseForCollection
          /\ (collectiblesScene /\ collectiblesScene')
                => /\ collectedItems \subseteq collectedItems'
                   /\ totalCredits' = totalCredits + creditValue * Cardinality(Collected)]_vars

\* two crates at exactly the collection radius were collected in one frame at
\* exactly the minimum speed, after a third one
C38_Witness ==
    /\ collectiblesScene
    /\ collectedItems = {1, 3, 4}
    /\ totalCredits = 300
    /\ collectibles = {2, 5}
    /\ capsulePosition = <<4000, 500, -9500>>
    /\ velocity = <<300, 0, 400>>

TrackedSystems == {activeParticleSystems[k] : k \in DOMAIN activeParticleSystems}

\* C39: every particle system createParticleSystem has created is tracked
\* under a key of its own until it is removed: the active map has as many
\* entries as systems created less systems removed, and the systems it holds
\* are exactly the created ones not yet stopped and disposed, so that
\* removeAllParticleSystems leaves none running.
C39_EverySystemTracked ==
    /\ Cardinality(DOMAIN activeParticleSystems)
          = Cardinality(particleSystems) - Cardinality(disposedSystems)
    /\ TrackedSystems = particleSystems \ disposedSystems

====
